---- MODULE Spec2Model ----
(***************************************************************************)
(* DasTrader connection engine: DasConnection (one Session per account)    *)
(* and ConnectionManager (the Registry), src/das_connection.py.            *)
(*                                                                         *)
(* Every coroutine is a process whose position (pc) sits at one of its     *)
(* await points; one action is the code run between two awaits.  Time is   *)
(* counted in ticks of 0.1 s inside recvall_async, the only place where    *)
(* the code reads the clock.  The terminal (the peer of the socket) is the *)
(* environment: it may send a chunk, close or reset a connection at any    *)
(* time.                                                                   *)
(***************************************************************************)
EXTENDS Integers, Sequences, FiniteSets, TLC

\* ---------------------------------------------------------------- bounds
MaxConnects == 2
MaxRx == 1
MaxCalls == 2

\* ------------------------------------------------- program constants (0.1 s)
PacketTimeout == 2
LoginReadTimeout == 5
LoginOuterTimeout == 5
LocalTimeout == 5
RemoteTimeout == 20
ExtraTimeout == 10

Accounts == {"a1", "a2"}
SessionAccounts == {"a1"}
Callers == {"c1", "c2"}
Transports == 1..MaxConnects
LocalHost == "127.0.0.1"
RemoteHost == "10.0.0.5"
Commands == {"GET POSITIONS", "GET BP"}
Kinds == {"position", "account"}
Chunks == {[mk |-> "%POS", full |-> FALSE], [mk |-> "BP", full |-> TRUE]}

\* the keys of the records a terminal reports
Symbols == {"AAPL", "MSFT"}
OrderIds == {"o1", "o2"}
TradeIds == {"t1", "t2", "t3"}
\* no record (None)
None == [none |-> TRUE]
\* no parser call has been made
NoCall == [fn |-> "none", arg |-> <<>>]
\* nothing has been fed for a trade id
NotFed == [push |-> None, batch |-> None, last |-> "none"]

VARIABLES
    \* DasConnection fields
    socket, connected, last_error, reader_task, command_lock, lock_waiters,
    reader_paused, data_callbacks, host,
    \* the transports a Session has opened, the terminal behind them, and
    \* the lines written to each transport
    reachable, tstate, rx, peer, tx,
    \* connect() in progress
    kpc, ksock, kelapsed, kdata, kresult, connectCalls, tcpAttempts,
    \* disconnect() in progress
    dpc,
    \* _background_reader tasks
    lpc, lsock, lcancel, dispatched, hstate,
    \* send_command() calls
    cpc, ccmd, csock, celapsed, cresp, coutcome, cioerr,
    \* ConnectionManager.connect_all()
    rpc, results, completed,
    \* disconnect_all() in progress
    dapc,
    \* _process_incoming_data: the lines still to classify, the handler calls made
    plines, pcalls,
    \* main.py: the per-account store, and for each trade id what was fed last
    account_data, tfed,
    \* data_parser: the call made and what it returned
    parse_call, parse_result,
    \* update_account_data: the replies read (pos_data, order_data,
    \* trade_data) of a refresh that has not stored them yet
    refresh

sessVars == <<socket, connected, last_error, reader_task, command_lock,
              lock_waiters, reader_paused, data_callbacks, host>>
netVars == <<reachable, tstate, rx, peer, tx>>
connVars == <<kpc, ksock, kelapsed, kdata, kresult, connectCalls, tcpAttempts>>
lisVars == <<lpc, lsock, lcancel, dispatched, hstate>>
cmdVars == <<cpc, ccmd, csock, celapsed, cresp, coutcome, cioerr>>
regVars == <<rpc, results, completed, dapc>>
appVars == <<plines, pcalls, account_data, tfed, parse_call, parse_result, refresh>>
vars == <<sessVars, netVars, connVars, dpc, lisVars, cmdVars, regVars, appVars>>

\* no send_command call has finished since the last one was issued
NoOutcome == [what |-> "none", io |-> FALSE]

\* ---------------------------------------------------------------- helpers
Upd(f, a, v) == [f EXCEPT ![a] = v]
Upd2(f, a, n, v) == [f EXCEPT ![a][n] = v]

\* socket.close() on the Session's current transport, if it holds one
CloseSocket(a) ==
    IF socket[a] # 0
    THEN /\ tstate' = Upd2(tstate, a, socket[a],
                         IF tstate[a][socket[a]] = "established" THEN "closed" ELSE "abandoned")
         /\ rx' = Upd2(rx, a, socket[a], <<>>)
         /\ peer' = Upd2(peer, a, socket[a], "up")
         /\ UNCHANGED tx
    ELSE UNCHANGED <<tstate, rx, peer, tx>>

\* the transport can deliver a packet to a pending sock_recv
Readable(a, n) == n # 0 /\ tstate[a][n] = "established" /\ rx[a][n] # <<>>
\* a pending sock_recv sees the peer's orderly close (b'')
AtEof(a, n) == n # 0 /\ tstate[a][n] = "established" /\ rx[a][n] = <<>> /\ peer[a][n] = "eof"
\* a pending sock_recv raises OSError (closed descriptor, unconnected socket, reset)
RecvFails(a, n) ==
    n # 0 /\ (tstate[a][n] # "established" \/ (peer[a][n] = "reset" /\ rx[a][n] = <<>>))
\* a pending sock_recv can only time out
Silent(a, n) == n # 0 /\ tstate[a][n] = "established" /\ rx[a][n] = <<>> /\ peer[a][n] = "up"

\* ------------------------------------------------------------------- Init
Constructed ==
    /\ socket = [a \in Accounts |-> 0]
    /\ connected = [a \in Accounts |-> FALSE]
    /\ last_error = [a \in Accounts |-> "none"]
    /\ reader_task = [a \in Accounts |-> 0]
    /\ command_lock = [a \in Accounts |-> "free"]
    /\ lock_waiters = [a \in Accounts |-> <<>>]
    /\ reader_paused = [a \in Accounts |-> FALSE]
    /\ data_callbacks = [a \in Accounts |-> {}]
    /\ host = [a \in Accounts |-> LocalHost]
    /\ tstate = [a \in Accounts |-> [n \in Transports |-> "none"]]
    /\ rx = [a \in Accounts |-> [n \in Transports |-> <<>>]]
    /\ peer = [a \in Accounts |-> [n \in Transports |-> "up"]]
    /\ tx = [a \in Accounts |-> [n \in Transports |-> {}]]
    /\ kpc = [a \in Accounts |-> "idle"]
    /\ ksock = [a \in Accounts |-> 0]
    /\ kelapsed = [a \in Accounts |-> 0]
    /\ kdata = [a \in Accounts |-> FALSE]
    /\ kresult = [a \in Accounts |-> "none"]
    /\ connectCalls = [a \in Accounts |-> 0]
    /\ tcpAttempts = [a \in Accounts |-> 0]
    /\ dpc = [a \in Accounts |-> 0]
    /\ lpc = [a \in Accounts |-> [n \in Transports |-> "none"]]
    /\ lsock = [a \in Accounts |-> [n \in Transports |-> 0]]
    /\ lcancel = [a \in Accounts |-> [n \in Transports |-> FALSE]]
    /\ dispatched = [a \in Accounts |-> {}]
    /\ hstate = [a \in Accounts |-> [n \in Transports |-> "none"]]
    /\ cpc = [a \in Accounts |-> [c \in Callers |-> "idle"]]
    /\ ccmd = [a \in Accounts |-> [c \in Callers |-> "none"]]
    /\ csock = [a \in Accounts |-> [c \in Callers |-> 0]]
    /\ celapsed = [a \in Accounts |-> [c \in Callers |-> 0]]
    /\ cresp = [a \in Accounts |-> [c \in Callers |-> {}]]
    /\ coutcome = [a \in Accounts |-> NoOutcome]
    /\ cioerr = [a \in Accounts |-> [c \in Callers |-> FALSE]]
    /\ rpc = "idle"
    /\ results = [a \in Accounts |-> "absent"]
    /\ completed = {}
    /\ dapc = 0
    /\ plines = [a \in Accounts |-> <<>>]
    /\ pcalls = [a \in Accounts |-> <<>>]
    /\ account_data = [a \in Accounts |-> [positions |-> <<>>, orders |-> <<>>, trades |-> <<>>]]
    /\ tfed = [a \in Accounts |-> [id \in TradeIds |-> NotFed]]
    /\ parse_call = NoCall
    /\ parse_result = None
    /\ refresh = [a \in Accounts |-> <<>>]

\* every terminal is reachable
Init ==
    /\ Constructed
    /\ reachable = [a \in Accounts |-> TRUE]

\* ------------------------------------------------------ recvall_async loop
\* max_wait_time = timeout * 2 if expected_marker else timeout
MaxWaitTime(timeout, marker) == IF marker # "none" THEN timeout * 2 ELSE timeout

\* Does the read loop end after the outcome ev of the sock_recv that was started
\* at loop-top time elapsed and finished at time now?
\*   packet : marker found, or (no marker expected and a short packet)
\*   eof    : always
\*   timeout: unless a marker is expected and elapsed < max_wait_time
\*   error  : always (the exception leaves the loop)
\* and, when the loop goes round, the test elapsed > max_wait_time at its top.
RecvallEnds(timeout, marker, elapsed, now, ev, chunk, seen) ==
    \/ ev = "packet" /\ marker # "none" /\ marker \in (seen \cup {chunk.mk})
    \/ ev = "packet" /\ marker = "none" /\ ~chunk.full
    \/ ev = "eof"
    \/ ev = "timeout" /\ ~(marker # "none" /\ elapsed < MaxWaitTime(timeout, marker))
    \/ ev = "error"
    \/ now > MaxWaitTime(timeout, marker)

\* ---------------------------------------------------------------- terminal
TerminalSend(a, n, ch) ==
    /\ tstate[a][n] = "established" /\ peer[a][n] = "up"
    /\ Len(rx[a][n]) < MaxRx
    /\ rx' = Upd2(rx, a, n, Append(rx[a][n], ch))
    /\ UNCHANGED <<sessVars, reachable, tstate, peer, tx, connVars, dpc, lisVars, cmdVars,
                   regVars, appVars>>

TerminalClose(a, n) ==
    /\ tstate[a][n] = "established" /\ peer[a][n] = "up"
    /\ peer' = Upd2(peer, a, n, "eof")
    /\ UNCHANGED <<sessVars, reachable, tstate, rx, tx, connVars, dpc, lisVars, cmdVars, regVars, appVars>>

TerminalReset(a, n) ==
    /\ tstate[a][n] = "established" /\ peer[a][n] = "up"
    /\ peer' = Upd2(peer, a, n, "reset")
    /\ rx' = Upd2(rx, a, n, <<>>)
    /\ UNCHANGED <<sessVars, reachable, tstate, tx, connVars, dpc, lisVars, cmdVars, regVars, appVars>>

\* ---------------------------------------------------------------- connect()
\* connect(), up to the await of sock_connect: a new socket replaces self.socket
ConnectBegin(a) ==
    /\ kpc[a] \in {"idle", "done"}
    /\ connectCalls[a] < MaxConnects
    /\ LET n == connectCalls[a] + 1 IN
        /\ socket' = Upd(socket, a, n)
        /\ tstate' = Upd2(tstate, a, n, "open")
        /\ ksock' = Upd(ksock, a, n)
        /\ connectCalls' = Upd(connectCalls, a, n)
        /\ tcpAttempts' = Upd(tcpAttempts, a, tcpAttempts[a] + 1)
    /\ kpc' = Upd(kpc, a, "tcp")
    /\ kresult' = Upd(kresult, a, "none")
    /\ UNCHANGED <<connected, last_error, reader_task, command_lock, lock_waiters,
                   reader_paused, data_callbacks, host, reachable, rx, peer, tx,
                   kelapsed, kdata, dpc, lisVars, cmdVars, regVars, appVars>>

\* a variant of the failure branches that keeps the transport handle
ConnectFailsKeepsSocket(a, err) ==
    /\ connected' = Upd(connected, a, FALSE)
    /\ last_error' = Upd(last_error, a, err)
    /\ kpc' = Upd(kpc, a, "done")
    /\ kresult' = Upd(kresult, a, "false")
    /\ kelapsed' = Upd(kelapsed, a, 0)
    /\ kdata' = Upd(kdata, a, FALSE)
    /\ ksock' = Upd(ksock, a, 0)
    /\ UNCHANGED <<socket, tstate, rx, peer, tx, reader_task, command_lock, lock_waiters,
                   reader_paused, data_callbacks, host, reachable,
                   connectCalls, tcpAttempts, dpc, lisVars, cmdVars, regVars, appVars>>

\* the failure branches of connect(): connected = False, last_error set,
\* self.socket closed and dropped, return False
ConnectFails(a, err) ==
    /\ connected' = Upd(connected, a, FALSE)
    /\ last_error' = Upd(last_error, a, err)
    /\ CloseSocket(a)
    /\ socket' = Upd(socket, a, 0)
    /\ kpc' = Upd(kpc, a, "done")
    /\ kresult' = Upd(kresult, a, "false")
    /\ kelapsed' = Upd(kelapsed, a, 0)
    /\ kdata' = Upd(kdata, a, FALSE)
    /\ ksock' = Upd(ksock, a, 0)
    /\ UNCHANGED <<reader_task, command_lock, lock_waiters, reader_paused,
                   data_callbacks, host, reachable,
                   connectCalls, tcpAttempts, dpc, lisVars, cmdVars, regVars, appVars>>

\* sock_connect completes
ConnectTcpOk(a) ==
    /\ kpc[a] = "tcp"
    /\ reachable[a]
    /\ tstate[a][ksock[a]] = "open"
    /\ tstate' = Upd2(tstate, a, ksock[a], "established")
    /\ kpc' = Upd(kpc, a, "sleep1")
    /\ ksock' = Upd(ksock, a, 0)
    /\ UNCHANGED <<sessVars, reachable, rx, peer, tx, kelapsed, kdata, kresult,
                   connectCalls, tcpAttempts, dpc, lisVars, cmdVars, regVars, appVars>>

\* asyncio.TimeoutError after 1 s
ConnectTcpTimeout(a) ==
    /\ kpc[a] = "tcp"
    /\ ConnectFails(a, "Connection timeout")

\* a variant of the refused branch that tries the TCP connection once more
ConnectTcpRefusedRetries(a) ==
    /\ kpc[a] = "tcp"
    /\ IF tcpAttempts[a] = connectCalls[a]
       THEN /\ tcpAttempts' = Upd(tcpAttempts, a, tcpAttempts[a] + 1)
            /\ UNCHANGED <<sessVars, netVars, kpc, ksock, kelapsed, kdata, kresult,
                           connectCalls, dpc, lisVars, cmdVars, regVars, appVars>>
       ELSE ConnectFails(a, "Connection failed")

\* OSError: connection refused, network unreachable, descriptor closed
ConnectTcpRefused(a) ==
    /\ kpc[a] = "tcp"
    /\ ConnectFails(a, "Connection failed")

\* after sleep(0.05): the LOGIN line is sent on self.socket
ConnectLoginSent(a) ==
    /\ kpc[a] = "sleep1"
    /\ socket[a] # 0
    /\ tstate[a][socket[a]] = "established"
    /\ peer[a][socket[a]] # "reset"
    /\ kpc' = Upd(kpc, a, "sleep2")
    /\ tx' = Upd2(tx, a, socket[a], tx[a][socket[a]] \cup {"LOGIN"})
    /\ UNCHANGED <<sessVars, reachable, tstate, rx, peer, ksock, kelapsed, kdata, kresult,
                   connectCalls, tcpAttempts, dpc, lisVars, cmdVars, regVars, appVars>>

\* the send does not finish within 0.5 s
ConnectLoginSendTimeout(a) ==
    /\ kpc[a] = "sleep1"
    /\ socket[a] # 0
    /\ tstate[a][socket[a]] = "established"
    /\ ConnectFails(a, "Login timeout")

\* the send raises (self.socket is None or closed, or the peer reset):
\* the outer except Exception
ConnectLoginSendError(a) ==
    /\ kpc[a] = "sleep1"
    /\ \/ socket[a] = 0
       \/ socket[a] # 0 /\ tstate[a][socket[a]] # "established"
       \/ socket[a] # 0 /\ peer[a][socket[a]] = "reset"
    /\ ConnectFails(a, "exception")

\* lines 106-113: connected = True, last_error = None, the listener is created
ConnectSucceeds(a) ==
    /\ connected' = Upd(connected, a, TRUE)
    /\ last_error' = Upd(last_error, a, "none")
    /\ reader_task' = Upd(reader_task, a, connectCalls[a])
    /\ lpc' = Upd2(lpc, a, connectCalls[a], "loop")
    /\ kpc' = Upd(kpc, a, "done")
    /\ kresult' = Upd(kresult, a, "true")
    /\ kelapsed' = Upd(kelapsed, a, 0)
    /\ kdata' = Upd(kdata, a, FALSE)
    /\ ksock' = Upd(ksock, a, 0)
    /\ UNCHANGED <<socket, command_lock, lock_waiters, reader_paused,
                   data_callbacks, host, connectCalls, tcpAttempts,
                   dpc, lsock, lcancel, dispatched, hstate, cmdVars, regVars, appVars>>

\* after sleep(0.05): recvall_async(timeout=0.5) starts; without a socket it
\* returns "" at once and connect() goes on to succeed
ConnectLoginReadBegin(a) ==
    /\ kpc[a] = "sleep2"
    /\ IF socket[a] = 0
       THEN /\ ConnectSucceeds(a)
            /\ UNCHANGED netVars
       ELSE /\ kpc' = Upd(kpc, a, "login_read")
            /\ ksock' = Upd(ksock, a, socket[a])
            /\ kelapsed' = Upd(kelapsed, a, 0)
            /\ kdata' = Upd(kdata, a, FALSE)
            /\ UNCHANGED <<sessVars, netVars, kresult, connectCalls,
                           tcpAttempts, dpc, lisVars, cmdVars, regVars, appVars>>

\* the outcomes a pending sock_recv on transport n can have, d ticks after it
\* was started
RecvOutcome(a, n, ev, d) ==
    \/ ev = "packet" /\ Readable(a, n) /\ d < PacketTimeout
    \/ ev = "eof" /\ AtEof(a, n) /\ d = 0
    \/ ev = "error" /\ RecvFails(a, n) /\ d = 0
    \/ ev = "timeout" /\ Silent(a, n) /\ d = PacketTimeout

Events == {"packet", "eof", "error", "timeout"}
Delays == 0..PacketTimeout
NoChunk == [mk |-> "BP", full |-> FALSE]
Taken(a, n, ev) == IF ev = "packet" THEN Upd2(rx, a, n, Tail(rx[a][n])) ELSE rx
Packet(a, n, ev) == IF ev = "packet" THEN Head(rx[a][n]) ELSE NoChunk

\* one sock_recv of the login read completes with outcome ev after d ticks,
\* before the outer wait_for(.., 0.5) expires
ConnectLoginRecv(a, ev, d) ==
    /\ kpc[a] = "login_read"
    /\ kelapsed[a] + d < LoginOuterTimeout
    /\ RecvOutcome(a, ksock[a], ev, d)
    /\ rx' = Taken(a, ksock[a], ev)
    /\ UNCHANGED <<reachable, tstate, peer, tx>>
    /\ IF \/ RecvallEnds(LoginReadTimeout, "none", kelapsed[a], kelapsed[a] + d,
                         ev, Packet(a, ksock[a], ev), {})
          \/ socket[a] = 0
       THEN ConnectSucceeds(a)
       ELSE /\ kelapsed' = Upd(kelapsed, a, kelapsed[a] + d)
            /\ kdata' = Upd(kdata, a, kdata[a] \/ ev = "packet")
            /\ ksock' = Upd(ksock, a, socket[a])
            /\ UNCHANGED <<sessVars, kpc, kresult, connectCalls,
                           tcpAttempts, dpc, lisVars, cmdVars, regVars, appVars>>

\* the outer wait_for(.., 0.5) expires while recvall_async is still reading
ConnectLoginTimeout(a) ==
    /\ kpc[a] = "login_read"
    /\ kelapsed[a] + PacketTimeout > LoginOuterTimeout
    /\ ConnectFails(a, "Login timeout")

\* ------------------------------------------------------- _background_reader
\* line class -> handler kind (the prefixes of _process_incoming_data)
KindOf(mk) == IF mk = "%POS" THEN "position" ELSE "account"

\* a variant of the loop that reads whether or not a command has paused it
ListenerPollIgnoresPause(a, n) ==
    /\ lpc[a][n] = "loop"
    /\ connected[a] /\ socket[a] # 0
    /\ lpc' = Upd2(lpc, a, n, "read")
    /\ lsock' = Upd2(lsock, a, n, socket[a])
    /\ UNCHANGED <<sessVars, netVars, connVars, dpc, lcancel, dispatched, hstate, cmdVars, regVars, appVars>>

\* top of the while loop, not paused: a sock_recv on self.socket is started
ListenerPoll(a, n) ==
    /\ lpc[a][n] = "loop"
    /\ connected[a] /\ socket[a] # 0
    /\ ~reader_paused[a]
    /\ lpc' = Upd2(lpc, a, n, "read")
    /\ lsock' = Upd2(lsock, a, n, socket[a])
    /\ UNCHANGED <<sessVars, netVars, connVars, dpc, lcancel, dispatched, hstate, cmdVars, regVars, appVars>>

\* a variant of the loop condition that looks at the transport handle only
ListenerExitOnSocketOnly(a, n) ==
    /\ lpc[a][n] = "loop"
    /\ socket[a] = 0
    /\ lpc' = Upd2(lpc, a, n, "done")
    /\ UNCHANGED <<sessVars, netVars, connVars, dpc, lsock, lcancel, dispatched, hstate, cmdVars, regVars, appVars>>

\* the loop condition fails: the task ends
ListenerExit(a, n) ==
    /\ lpc[a][n] = "loop"
    /\ ~(connected[a] /\ socket[a] # 0)
    /\ lpc' = Upd2(lpc, a, n, "done")
    /\ UNCHANGED <<sessVars, netVars, connVars, dpc, lsock, lcancel, dispatched, hstate, cmdVars, regVars, appVars>>

\* what a task's handlers have done so far: "raised" once one of them raised,
\* "resumed" once the task invoked a handler after that
HandlerOutcome(h, raises) ==
    IF raises THEN (IF h = "none" THEN "raised" ELSE h)
    ELSE (IF h = "raised" THEN "resumed" ELSE h)

\* a variant of the listener in which an exception of a handler ends the task
ListenerRecvStopsOnRaise(a, n, ev) ==
    /\ lpc[a][n] = "read"
    /\ \/ ev = "packet" /\ Readable(a, lsock[a][n])
       \/ ev = "eof" /\ AtEof(a, lsock[a][n])
       \/ ev = "error" /\ RecvFails(a, lsock[a][n])
       \/ ev = "timeout" /\ Silent(a, lsock[a][n])
    /\ rx' = Taken(a, lsock[a][n], ev)
    /\ IF ev = "packet" /\ KindOf(Head(rx[a][lsock[a][n]]).mk) \in data_callbacks[a]
       THEN /\ dispatched' = Upd(dispatched, a, dispatched[a] \cup {lsock[a][n]})
            /\ \E raises \in BOOLEAN :
                 /\ hstate' = Upd2(hstate, a, n, HandlerOutcome(hstate[a][n], raises))
                 /\ lpc' = Upd2(lpc, a, n, IF raises THEN "done" ELSE "loop")
       ELSE /\ UNCHANGED <<dispatched, hstate>>
            /\ lpc' = Upd2(lpc, a, n, "loop")
    /\ lsock' = Upd2(lsock, a, n, 0)
    /\ UNCHANGED <<sessVars, reachable, tstate, peer, tx, connVars, dpc, lcancel,
                   cmdVars, regVars, appVars>>

\* the pending sock_recv completes; a received line goes to its handler when
\* one is registered, and the handler returns or raises; an exception is
\* caught by the except of line 314 (or 310); then sleep and back to the top
\* of the loop
ListenerRecv(a, n, ev) ==
    /\ lpc[a][n] = "read"
    /\ \/ ev = "packet" /\ Readable(a, lsock[a][n])
       \/ ev = "eof" /\ AtEof(a, lsock[a][n])
       \/ ev = "error" /\ RecvFails(a, lsock[a][n])
       \/ ev = "timeout" /\ Silent(a, lsock[a][n])
    /\ rx' = Taken(a, lsock[a][n], ev)
    /\ IF ev = "packet" /\ KindOf(Head(rx[a][lsock[a][n]]).mk) \in data_callbacks[a]
       THEN /\ dispatched' = Upd(dispatched, a, dispatched[a] \cup {lsock[a][n]})
            /\ \E raises \in BOOLEAN :
                 hstate' = Upd2(hstate, a, n, HandlerOutcome(hstate[a][n], raises))
       ELSE UNCHANGED <<dispatched, hstate>>
    /\ lpc' = Upd2(lpc, a, n, "loop")
    /\ lsock' = Upd2(lsock, a, n, 0)
    /\ UNCHANGED <<sessVars, reachable, tstate, peer, tx, connVars, dpc, lcancel,
                   cmdVars, regVars, appVars>>

\* task.cancel() reaches the task at the await it is suspended in
ListenerCancelled(a, n) ==
    /\ lcancel[a][n]
    /\ lpc[a][n] \in {"loop", "read"}
    /\ lpc' = Upd2(lpc, a, n, "done")
    /\ lsock' = Upd2(lsock, a, n, 0)
    /\ lcancel' = Upd2(lcancel, a, n, FALSE)
    /\ UNCHANGED <<sessVars, netVars, connVars, dpc, dispatched, hstate, cmdVars, regVars, appVars>>

\* register_callback, for every kind of handler (the caller registers them together)
RegisterCallbacks(a) ==
    /\ data_callbacks[a] # Kinds
    /\ data_callbacks' = Upd(data_callbacks, a, Kinds)
    /\ UNCHANGED <<socket, connected, last_error, reader_task, command_lock, lock_waiters,
                   reader_paused, host, netVars, connVars, dpc, lisVars, cmdVars, regVars, appVars>>

\* ---------------------------------------------- _process_incoming_data
\* A text is the sequence of its characters.
PfxPos == <<"%", "P", "O", "S">>
PfxOrder == <<"%", "O", "R", "D", "E", "R">>
PfxOrderAct == <<"%", "O", "r", "d", "e", "r", "A", "c", "t">>
PfxTrade == <<"%", "T", "R", "A", "D", "E">>
PfxAccountInfo == <<"$", "A", "c", "c", "o", "u", "n", "t", "I", "n", "f", "o">>
PfxBP == <<"B", "P">>
PfxQuote == <<"$", "Q", "u", "o", "t", "e">>

\* the kinds main.py registers a handler for (register_callback takes any name)
CallbackKinds == {"position", "order", "trade", "account", "quote"}

\* the characters str.strip() removes
Whitespace == {" ", "\t", "\n", "\r", "\f"}

\* str.startswith
StartsWith(line, p) == Len(line) >= Len(p) /\ SubSeq(line, 1, Len(p)) = p

\* p in line
Contains(line, p) ==
    \E i \in 1..(Len(line) + 1) :
        i + Len(p) - 1 <= Len(line) /\ SubSeq(line, i, i + Len(p) - 1) = p

RECURSIVE LStrip(_)
LStrip(line) ==
    IF line # <<>> /\ Head(line) \in Whitespace THEN LStrip(Tail(line)) ELSE line

RECURSIVE RStrip(_)
RStrip(line) ==
    IF line # <<>> /\ line[Len(line)] \in Whitespace
    THEN RStrip(SubSeq(line, 1, Len(line) - 1))
    ELSE line

\* str.strip()
Strip(line) == RStrip(LStrip(line))

\* data.split('\n'): cur is the piece being collected
RECURSIVE SplitFrom(_, _)
SplitFrom(data, cur) ==
    IF data = <<>> THEN <<cur>>
    ELSE IF Head(data) = "\n" THEN <<cur>> \o SplitFrom(Tail(data), <<>>)
    ELSE SplitFrom(Tail(data), Append(cur, Head(data)))

SplitLines(data) == SplitFrom(data, <<>>)

\* a variant of the classification that looks for the token anywhere in the line
LineKindAnywhere(line) ==
    IF Contains(line, PfxPos) THEN "position"
    ELSE IF Contains(line, PfxOrder) \/ Contains(line, PfxOrderAct) THEN "order"
    ELSE IF Contains(line, PfxTrade) THEN "trade"
    ELSE IF Contains(line, PfxAccountInfo) \/ Contains(line, PfxBP) THEN "account"
    ELSE IF Contains(line, PfxQuote) THEN "quote"
    ELSE "none"

\* lines 326-349: the if/elif chain over the stripped line
LineKind(line) ==
    IF StartsWith(line, PfxPos) THEN "position"
    ELSE IF StartsWith(line, PfxOrder) \/ StartsWith(line, PfxOrderAct) THEN "order"
    ELSE IF StartsWith(line, PfxTrade) THEN "trade"
    ELSE IF StartsWith(line, PfxAccountInfo) \/ StartsWith(line, PfxBP) THEN "account"
    ELSE IF StartsWith(line, PfxQuote) THEN "quote"
    ELSE "none"

\* the lines a terminal may send: each kind of push, padded and CR-terminated
\* lines, blank lines, a lower-case token, a token that is not at the start
\* of the line, a truncated token, tokens followed by more letters, and
\* unknown lines
DataLines ==
    { PfxPos \o <<" ", "A">>,
      <<" ", "\t">> \o PfxPos \o <<" ", "A", " ", "\r">>,
      PfxOrder \o <<" ", "1">>,
      PfxOrderAct \o <<" ", "1">>,
      PfxTrade \o <<" ", "1", "\r">>,
      PfxAccountInfo,
      PfxBP \o <<" ", "9">>,
      PfxQuote \o <<" ", "A">>,
      <<>>,
      <<" ", "\r">>,
      <<"%", "p", "o", "s", " ", "A">>,
      <<"#", " ">> \o PfxPos,
      <<"%", "P", "O">>,
      PfxOrder \o <<"S">>,
      PfxBP \o <<"X">>,
      <<"$", "L", "D", "L", "U">>,
      <<"#", "P", "O", "S", "E", "n", "d">> }

\* the texts the listener may pass on: one line, or two lines joined by "\n"
DataTexts ==
    (DataLines \ {<<>>})
      \cup {l1 \o <<"\n">> \o l2 : l1 \in DataLines, l2 \in DataLines}

\* register_callback(data_type, callback)
RegisterCallback(a, kind) ==
    /\ kind \notin data_callbacks[a]
    /\ data_callbacks' = Upd(data_callbacks, a, data_callbacks[a] \cup {kind})
    /\ UNCHANGED <<socket, connected, last_error, reader_task, command_lock, lock_waiters,
                   reader_paused, host, netVars, connVars, dpc, lisVars, cmdVars, regVars,
                   appVars>>

\* line 320: _process_incoming_data(data) is entered and splits its text
ProcessIncomingData(a, data) ==
    /\ plines[a] = <<>> /\ pcalls[a] = <<>>
    /\ plines' = Upd(plines, a, SplitLines(data))
    /\ UNCHANGED <<sessVars, netVars, connVars, dpc, lisVars, cmdVars, regVars, pcalls,
                   account_data, tfed, parse_call, parse_result, refresh>>

\* lines 321-349: one iteration of the loop over the lines; the handler of
\* the line's kind, if one is registered, is awaited with (account_id, line)
ProcessLine(a) ==
    /\ plines[a] # <<>>
    /\ LET line == Strip(Head(plines[a])) IN
         pcalls' = IF line # <<>> /\ LineKind(line) \in data_callbacks[a]
                   THEN Upd(pcalls, a, Append(pcalls[a],
                            [kind |-> LineKind(line), account_id |-> a, line |-> line]))
                   ELSE pcalls
    /\ plines' = Upd(plines, a, Tail(plines[a]))
    /\ UNCHANGED <<sessVars, netVars, connVars, dpc, lisVars, cmdVars, regVars,
                   account_data, tfed, parse_call, parse_result, refresh>>

\* The classification of incoming lines, for every text of DataTexts and
\* every set of registered handlers.
NextDispatch ==
    \E a \in SessionAccounts :
        \/ \E kind \in CallbackKinds : RegisterCallback(a, kind)
        \/ \E data \in DataTexts : ProcessIncomingData(a, data)
        \/ ProcessLine(a)

SpecDispatch == Init /\ [][NextDispatch]_vars

\* the push lines of the terminal, and the texts it sends: one line or two,
\* each ended by "\n"
PushLines == {PfxPos \o <<" ", "A">>, PfxBP \o <<" ", "9">>}
PushTexts ==
    {l \o <<"\n">> : l \in PushLines}
      \cup {l1 \o <<"\n">> \o l2 \o <<"\n">> : l1 \in PushLines, l2 \in PushLines}

\* the terminal sends a text, which reaches the socket as one packet or cut
\* in two after its k-th character
TerminalPush(a, text, k) ==
    /\ rx[a][1] = <<>> /\ plines[a] = <<>>
    /\ Len(pcalls[a]) < MaxCalls
    /\ rx' = Upd2(rx, a, 1, IF k = Len(text) THEN <<text>>
                             ELSE <<SubSeq(text, 1, k), SubSeq(text, k + 1, Len(text))>>)
    /\ UNCHANGED <<sessVars, reachable, tstate, peer, tx, connVars, dpc, lisVars, cmdVars,
                   regVars, appVars>>

\* lines 300-307: one sock_recv of the listener returns the next packet;
\* its text is stripped and, unless empty, given to _process_incoming_data,
\* which splits it into lines
ListenerData(a) ==
    /\ rx[a][1] # <<>> /\ plines[a] = <<>>
    /\ rx' = Upd2(rx, a, 1, Tail(rx[a][1]))
    /\ LET decoded == Strip(Head(rx[a][1])) IN
         plines' = Upd(plines, a, IF decoded # <<>> THEN SplitLines(decoded) ELSE <<>>)
    /\ UNCHANGED <<sessVars, reachable, tstate, peer, tx, connVars, dpc, lisVars, cmdVars,
                   regVars, pcalls, account_data, tfed, parse_call, parse_result, refresh>>

\* lines 321-349 and 310-311: the handler of a line is awaited and raises;
\* the exception leaves the loop over the lines and _process_incoming_data,
\* and is caught in _background_reader
ProcessLineRaises(a) ==
    /\ plines[a] # <<>>
    /\ LET line == Strip(Head(plines[a])) IN
         /\ line # <<>> /\ LineKind(line) \in data_callbacks[a]
         /\ pcalls' = Upd(pcalls, a, Append(pcalls[a],
                          [kind |-> LineKind(line), account_id |-> a, line |-> line]))
    /\ plines' = Upd(plines, a, <<>>)
    /\ hstate' = Upd2(hstate, a, 1, HandlerOutcome(hstate[a][1], TRUE))
    /\ UNCHANGED <<sessVars, netVars, connVars, dpc, lpc, lsock, lcancel, dispatched,
                   cmdVars, regVars, account_data, tfed, parse_call, parse_result, refresh>>

\* The listener's reads of the pushes of a terminal and their dispatch, with
\* handlers that return or raise.
NextPush ==
    \E a \in SessionAccounts :
        \/ RegisterCallbacks(a)
        \/ \E text \in PushTexts : \E k \in 1..Len(text) : TerminalPush(a, text, k)
        \/ ListenerData(a)
        \/ ProcessLine(a)
        \/ ProcessLineRaises(a)

SpecPush == Init /\ [][NextPush]_vars

\* ------------------------------------------ data_parser and the store
\* A line is the sequence of its whitespace-separated tokens (line.split()),
\* a response the sequence of its lines.
\* the tokens int() accepts, and the tokens float() accepts
IsInt(tok) == tok \in {"1", "2", "100"}
IsFloat(tok) == IsInt(tok) \/ tok \in {"0.0", "10.0", "11.0"}

\* int(tok)
IntOf(tok) == CASE tok = "1" -> 1 [] tok = "2" -> 2 [] tok = "100" -> 100

\* a float, in tenths
Float(x) == [float |-> x]

\* float(tok)
FloatOf(tok) ==
    Float(CASE tok = "0.0" -> 0 [] tok = "10.0" -> 100 [] tok = "11.0" -> 110
            [] tok = "1" -> 10 [] tok = "2" -> 20 [] tok = "100" -> 1000)

\* parts[i] if len(parts) > i else default (i counted from 1 here)
FieldOr(parts, i, default) == IF Len(parts) >= i THEN parts[i] ELSE default

\* pos_type_map.get(tok, tok); the type codes are defined outside src/
\* (constants.py): 1 cash, 2 margin, 3 short
PosTypeOf(tok) ==
    CASE tok = "1" -> "cash" [] tok = "2" -> "margin" [] tok = "3" -> "short"
      [] OTHER -> tok

\* side_map.get(tok, tok)
SideOf(tok) ==
    CASE tok = "B" -> "Buy" [] tok = "S" -> "Sell" [] tok = "SS" -> "Short"
      [] OTHER -> tok

\* trades kept per account (1000 in main.py), scaled to the ids of the model
TradeCap == 2

\* _parse_position_line: None for fewer than 10 tokens and when a conversion
\* raises.  With 10 tokens the default of unrealized_pnl is never taken.
ParsePositionLine(parts) ==
    IF Len(parts) < 10 THEN None
    ELSE IF ~(IsInt(parts[4]) /\ IsFloat(parts[5]) /\ IsInt(parts[6]) /\ IsFloat(parts[7])
              /\ IsFloat(parts[8]) /\ IsFloat(parts[10])) THEN None
    ELSE [symbol |-> parts[2], type |-> PosTypeOf(parts[3]), quantity |-> IntOf(parts[4]),
          avg_cost |-> FloatOf(parts[5]), init_quantity |-> IntOf(parts[6]),
          init_price |-> FloatOf(parts[7]), realized_pnl |-> FloatOf(parts[8]),
          create_time |-> parts[9],
          unrealized_pnl |-> IF Len(parts) > 9 THEN FloatOf(parts[10]) ELSE Float(0)]

\* _parse_order_line: None for fewer than 10 tokens and when a conversion
\* raises; route and status (parts[10], parts[11] counted from 0) are read
\* without a test of the length, so a line of 10 or 11 tokens raises
\* IndexError and gives None as well
ParseOrderLine(parts) ==
    IF Len(parts) < 10 THEN None
    ELSE IF ~(IsInt(parts[7]) /\ IsInt(parts[8]) /\ IsInt(parts[9])
              /\ (parts[10] = "MKT" \/ IsFloat(parts[10]))) THEN None
    ELSE IF Len(parts) < 12 THEN None
    ELSE [order_id |-> parts[2], token |-> parts[3], symbol |-> parts[4],
          side |-> SideOf(parts[5]), order_type |-> parts[6],
          quantity |-> IntOf(parts[7]), left_quantity |-> IntOf(parts[8]),
          canceled_quantity |-> IntOf(parts[9]),
          price |-> IF parts[10] # "MKT" THEN FloatOf(parts[10]) ELSE None,
          route |-> parts[11], status |-> parts[12],
          time |-> FieldOr(parts, 13, ""), original_order_id |-> FieldOr(parts, 14, ""),
          account |-> FieldOr(parts, 15, ""), trader |-> FieldOr(parts, 16, ""),
          order_source |-> FieldOr(parts, 17, "")]

\* _parse_trade_line: None for fewer than 8 tokens and when a conversion
\* raises; the side token is stored as it is
ParseTradeLine(parts) ==
    IF Len(parts) < 8 THEN None
    ELSE IF ~(IsInt(parts[5]) /\ IsFloat(parts[6])
              /\ (Len(parts) > 10 /\ parts[11] # "" => IsFloat(parts[11]))
              /\ (Len(parts) > 11 /\ parts[12] # "" => IsFloat(parts[12]))) THEN None
    ELSE [trade_id |-> parts[2], symbol |-> parts[3], side |-> parts[4],
          quantity |-> IntOf(parts[5]), price |-> FloatOf(parts[6]),
          route |-> parts[7], time |-> parts[8],
          order_id |-> FieldOr(parts, 9, ""), liquidity |-> FieldOr(parts, 10, ""),
          ecn_fee |-> IF Len(parts) > 10 /\ parts[11] # "" THEN FloatOf(parts[11]) ELSE Float(0),
          realized_pl |-> IF Len(parts) > 11 /\ parts[12] # "" THEN FloatOf(parts[12]) ELSE Float(0)]

\* the section markers; they are defined outside src/ (constants.py), main.py
\* tests the replies for "#POS", "#Order" and "#Trade"
MarkerPosStart == <<"#POS">>
MarkerPosEnd == <<"#POSEnd">>
MarkerOrderStart == <<"#Order">>
MarkerOrderEnd == <<"#OrderEnd">>
MarkerTradeStart == <<"#Trade">>
MarkerTradeEnd == <<"#TradeEnd">>

\* a variant of parse_positions that stops at the end marker
RECURSIVE ParsePositionsUntilEnd(_, _)
ParsePositionsUntilEnd(data, in_positions) ==
    IF data = <<>> THEN <<>>
    ELSE LET line == Head(data) IN
         IF line = MarkerPosStart THEN ParsePositionsUntilEnd(Tail(data), TRUE)
         ELSE IF line = MarkerPosEnd THEN <<>>
         ELSE IF line # <<>> /\ line[1] = "%POS"
         THEN LET pos == ParsePositionLine(line) IN
              (IF pos # None THEN <<pos>> ELSE <<>>) \o ParsePositionsUntilEnd(Tail(data), TRUE)
         ELSE ParsePositionsUntilEnd(Tail(data), in_positions)

\* parse_positions, lines 35-54, from one line of the reply on: the start
\* and the end marker are passed over, a line that starts with %POS is parsed
\* and gives a record unless the line parser returns None, any other line is
\* passed over
RECURSIVE ParsePositionsFrom(_, _)
ParsePositionsFrom(data, in_positions) ==
    IF data = <<>> THEN <<>>
    ELSE LET line == Head(data) IN
         IF line = MarkerPosStart THEN ParsePositionsFrom(Tail(data), TRUE)
         ELSE IF line = MarkerPosEnd THEN ParsePositionsFrom(Tail(data), in_positions)
         ELSE IF line # <<>> /\ line[1] = "%POS"
         THEN LET pos == ParsePositionLine(line) IN
              (IF pos # None THEN <<pos>> ELSE <<>>) \o ParsePositionsFrom(Tail(data), TRUE)
         ELSE ParsePositionsFrom(Tail(data), in_positions)

ParsePositions(data) == ParsePositionsFrom(data, FALSE)

\* a variant of parse_orders that gives up at the first line it cannot parse
RECURSIVE ParseOrdersStopsAtBadLine(_, _)
ParseOrdersStopsAtBadLine(data, in_orders) ==
    IF data = <<>> THEN <<>>
    ELSE LET line == Head(data) IN
         IF line = MarkerOrderStart THEN ParseOrdersStopsAtBadLine(Tail(data), TRUE)
         ELSE IF line = MarkerOrderEnd THEN ParseOrdersStopsAtBadLine(Tail(data), in_orders)
         ELSE IF line # <<>> /\ line[1] = "%ORDER"
         THEN LET order == ParseOrderLine(line) IN
              IF order # None THEN <<order>> \o ParseOrdersStopsAtBadLine(Tail(data), TRUE)
              ELSE <<>>
         ELSE ParseOrdersStopsAtBadLine(Tail(data), in_orders)

\* parse_orders, lines 95-114
RECURSIVE ParseOrdersFrom(_, _)
ParseOrdersFrom(data, in_orders) ==
    IF data = <<>> THEN <<>>
    ELSE LET line == Head(data) IN
         IF line = MarkerOrderStart THEN ParseOrdersFrom(Tail(data), TRUE)
         ELSE IF line = MarkerOrderEnd THEN ParseOrdersFrom(Tail(data), in_orders)
         ELSE IF line # <<>> /\ line[1] = "%ORDER"
         THEN LET order == ParseOrderLine(line) IN
              (IF order # None THEN <<order>> ELSE <<>>) \o ParseOrdersFrom(Tail(data), TRUE)
         ELSE ParseOrdersFrom(Tail(data), in_orders)

ParseOrders(data) == ParseOrdersFrom(data, FALSE)

\* parse_trades, lines 161-180
RECURSIVE ParseTradesFrom(_, _)
ParseTradesFrom(data, in_trades) ==
    IF data = <<>> THEN <<>>
    ELSE LET line == Head(data) IN
         IF line = MarkerTradeStart THEN ParseTradesFrom(Tail(data), TRUE)
         ELSE IF line = MarkerTradeEnd THEN ParseTradesFrom(Tail(data), in_trades)
         ELSE IF line # <<>> /\ line[1] = "%TRADE"
         THEN LET trade == ParseTradeLine(line) IN
              (IF trade # None THEN <<trade>> ELSE <<>>) \o ParseTradesFrom(Tail(data), TRUE)
         ELSE ParseTradesFrom(Tail(data), in_trades)

ParseTrades(data) == ParseTradesFrom(data, FALSE)

\* the lines of the three kinds: well-formed ones, one too short, one with a
\* token that is not a number
PositionLine(sym, qty) ==
    <<"%POS", sym, "2", qty, "10.0", "1", "10.0", "0.0", "09:30", "0.0">>
PositionLines ==
    {PositionLine(sym, qty) : sym \in Symbols, qty \in {"1", "2"}}
      \cup {<<"%POS", "AAPL", "2", "1">>, PositionLine("AAPL", "x")}

OrderLine(id, status) ==
    <<"%ORDER", id, "7", "AAPL", "B", "LMT", "100", "100", "1", "10.0", "ARCA", status, "09:30">>
OrderLines ==
    {OrderLine(id, status) : id \in OrderIds, status \in {"Accepted", "Executed"}}
      \cup {<<"%ORDER", "o1", "7", "AAPL", "B", "LMT", "100", "100", "1", "MKT">>}

TradeLine(id, price, time) ==
    <<"%TRADE", id, "AAPL", "B", "100", price, "ARCA", time>>
TradeLines ==
    {TradeLine(id, "10.0", "09:30") : id \in TradeIds}
      \cup {TradeLine("t1", "11.0", "09:31"), TradeLine("t2", "10.0", "09:31"),
            <<"%TRADE", "t1", "AAPL", "B", "100", "10.0", "ARCA">>}

\* a command's reply as update_account_data holds it: None after a failed
\* command, the empty text, or a block of up to two lines after its start marker
NoData == <<>>
Block(marker, lines) ==
    {<<<<marker>>>>}
      \cup {<<<<marker>>, l>> : l \in lines}
      \cup {<<<<marker>>, l1, l2>> : l1 \in lines, l2 \in lines}
PositionData == {NoData} \cup Block("#POS", PositionLines)
OrderData == {NoData} \cup Block("#Order", OrderLines)
TradeData == {NoData} \cup Block("#Trade", TradeLines) \cup Block("#POS", PositionLines \cap {PositionLine("AAPL", "1")})

\* "text" in tok, for the texts the validation looks for: the end marker of
\* a kind holds its start marker
TextIn(text, tok) ==
    \/ tok = text
    \/ text = "#POS" /\ tok = "#POSEnd"
    \/ text = "#Order" /\ tok = "#OrderEnd"
    \/ text = "#Trade" /\ tok = "#TradeEnd"

\* lines 303-315 and the like: the reply is kept when it is not empty and
\* holds the sigil or the marker of its kind anywhere in its text
Validated(data, sigil, marker) ==
    \E i \in 1..Len(data) : \E j \in 1..Len(data[i]) :
        TextIn(sigil, data[i][j]) \/ TextIn(marker, data[i][j])

\* the order of the time strings
TimeRank(t) == IF t = "09:30" THEN 1 ELSE 2

\* a variant of the push handler that keeps the stored records of the same id
PushTradeKeepsExisting(trades, trade) ==
    SubSeq(<<trade>> \o trades, 1, IF Len(trades) + 1 > TradeCap THEN TradeCap ELSE Len(trades) + 1)

\* a variant of the push handler that puts the new trade behind the stored ones
PushTradeAtEnd(trades, trade) ==
    LET kept == SelectSeq(trades, LAMBDA t : t.trade_id # trade.trade_id)
        all == Append(kept, trade)
    IN SubSeq(all, 1, IF Len(all) > TradeCap THEN TradeCap ELSE Len(all))

\* handle_trade_update, lines 218-232: the stored records of the same id are
\* removed, the trade goes to the front, the list is cut to the cap
PushTrade(trades, trade) ==
    LET kept == SelectSeq(trades, LAMBDA t : t.trade_id # trade.trade_id)
        all == <<trade>> \o kept
    IN SubSeq(all, 1, IF Len(all) > TradeCap THEN TradeCap ELSE Len(all))

\* dict[key] = value on a dict kept as the sequence of its values in
\* insertion order: an existing key keeps its place
DictSet(d, trade) ==
    IF \E i \in 1..Len(d) : d[i].trade_id = trade.trade_id
    THEN [i \in 1..Len(d) |-> IF d[i].trade_id = trade.trade_id THEN trade ELSE d[i]]
    ELSE Append(d, trade)

RECURSIVE DictOf(_, _)
DictOf(d, trades) ==
    IF trades = <<>> THEN d ELSE DictOf(DictSet(d, Head(trades)), Tail(trades))

\* list.sort(key=time, reverse=True): stable, latest first
RECURSIVE InsertByTime(_, _)
InsertByTime(sorted, t) ==
    IF sorted = <<>> THEN <<t>>
    ELSE IF TimeRank(Head(sorted).time) >= TimeRank(t.time)
         THEN <<Head(sorted)>> \o InsertByTime(Tail(sorted), t)
         ELSE <<t>> \o sorted

RECURSIVE SortByTime(_, _)
SortByTime(sorted, rest) ==
    IF rest = <<>> THEN sorted ELSE SortByTime(InsertByTime(sorted, Head(rest)), Tail(rest))

\* lines 414-444: the batch is merged into the stored trades through a dict
\* keyed by trade_id, sorted by time and cut to the cap
MergeTrades(existing, new_trades) ==
    LET merged == SortByTime(<<>>, DictOf(DictOf(<<>>, existing), new_trades))
    IN SubSeq(merged, 1, IF Len(merged) > TradeCap THEN TradeCap ELSE Len(merged))

\* handle_position_update, lines 177-186: the first record of the symbol is
\* replaced, or the record is appended
PushPosition(positions, pos) ==
    IF \E i \in 1..Len(positions) : positions[i].symbol = pos.symbol
    THEN LET first == CHOOSE i \in 1..Len(positions) :
                        /\ positions[i].symbol = pos.symbol
                        /\ \A j \in 1..(i - 1) : positions[j].symbol # pos.symbol
         IN [positions EXCEPT ![first] = pos]
    ELSE Append(positions, pos)

\* handle_order_update, lines 196-205
PushOrder(orders, order) ==
    IF \E i \in 1..Len(orders) : orders[i].order_id = order.order_id
    THEN LET first == CHOOSE i \in 1..Len(orders) :
                        /\ orders[i].order_id = order.order_id
                        /\ \A j \in 1..(i - 1) : orders[j].order_id # order.order_id
         IN [orders EXCEPT ![first] = order]
    ELSE Append(orders, order)

\* what has been fed for a trade id, after rec came by the path by
Fed(f, by, rec) ==
    [f EXCEPT ![rec.trade_id] =
        IF by = "push" THEN [push |-> rec, batch |-> @.batch, last |-> "push"]
        ELSE [push |-> @.push, batch |-> rec, last |-> "batch"]]

RECURSIVE FedAll(_, _)
FedAll(f, recs) ==
    IF recs = <<>> THEN f ELSE FedAll(Fed(f, "batch", Head(recs)), Tail(recs))

StoreUnchanged ==
    UNCHANGED <<sessVars, netVars, connVars, dpc, lisVars, cmdVars, regVars, plines, pcalls,
                parse_call, parse_result, refresh>>

\* handle_position_update(account_id, line)
HandlePositionUpdate(a, line) ==
    /\ LET pos == ParsePositionLine(line) IN
         account_data' =
            IF pos # None
            THEN [account_data EXCEPT ![a].positions = PushPosition(@, pos)]
            ELSE account_data
    /\ UNCHANGED tfed
    /\ StoreUnchanged

\* handle_order_update(account_id, line) for a %ORDER line
HandleOrderUpdate(a, line) ==
    /\ LET order == ParseOrderLine(line) IN
         account_data' =
            IF order # None
            THEN [account_data EXCEPT ![a].orders = PushOrder(@, order)]
            ELSE account_data
    /\ UNCHANGED tfed
    /\ StoreUnchanged

\* handle_trade_update(account_id, line)
HandleTradeUpdate(a, line) ==
    /\ LET trade == ParseTradeLine(line) IN
         IF trade # None
         THEN /\ account_data' = [account_data EXCEPT ![a].trades = PushTrade(@, trade)]
              /\ tfed' = Upd(tfed, a, Fed(tfed[a], "push", trade))
         ELSE UNCHANGED <<account_data, tfed>>
    /\ StoreUnchanged

\* a variant of the refresh that parses every reply that is not empty
ProcessResultsUnvalidated(a, pos_data, order_data, trade_data) ==
    /\ account_data' = [account_data EXCEPT ![a] =
          [positions |-> IF pos_data # NoData THEN ParsePositions(pos_data) ELSE @.positions,
           orders |-> IF order_data # NoData THEN ParseOrders(order_data) ELSE @.orders,
           trades |-> IF trade_data # NoData
                      THEN MergeTrades(@.trades, ParseTrades(trade_data)) ELSE @.trades]]
    /\ tfed' = IF trade_data # NoData
               THEN Upd(tfed, a, FedAll(tfed[a], ParseTrades(trade_data)))
               ELSE tfed
    /\ StoreUnchanged

\* update_account_data, lines 387-445: the validated replies are applied to
\* the store in one step (no await in between)
StoreResults(a, pos_data, order_data, trade_data) ==
    /\ account_data' = [account_data EXCEPT ![a] =
          [positions |-> IF Validated(pos_data, "%POS", "#POS")
                         THEN ParsePositions(pos_data) ELSE @.positions,
           orders |-> IF Validated(order_data, "%ORDER", "#Order")
                      THEN ParseOrders(order_data) ELSE @.orders,
           trades |-> IF Validated(trade_data, "%TRADE", "#Trade")
                      THEN MergeTrades(@.trades, ParseTrades(trade_data)) ELSE @.trades]]
    /\ tfed' = IF Validated(trade_data, "%TRADE", "#Trade")
               THEN Upd(tfed, a, FedAll(tfed[a], ParseTrades(trade_data)))
               ELSE tfed

ProcessResults(a, pos_data, order_data, trade_data) ==
    /\ StoreResults(a, pos_data, order_data, trade_data)
    /\ StoreUnchanged

\* The trades of an account: pushes and batch refreshes in any order.
NextTrades ==
    \E a \in SessionAccounts :
        \/ \E line \in TradeLines : HandleTradeUpdate(a, line)
        \/ \E td \in TradeData : ProcessResults(a, NoData, NoData, td)

SpecTrades == Init /\ [][NextTrades]_vars

\* the replies of one refresh: one reply of up to two lines, or two replies
\* of up to one line each
BookData ==
    {d \in PositionData \X OrderData :
        d[1] = NoData \/ d[2] = NoData \/ Len(d[1]) + Len(d[2]) <= 4}

\* The positions and orders of an account: pushes and batch refreshes in
\* any order.
NextBook ==
    \E a \in SessionAccounts :
        \/ \E line \in PositionLines : HandlePositionUpdate(a, line)
        \/ \E line \in OrderLines : HandleOrderUpdate(a, line)
        \/ \E d \in BookData : ProcessResults(a, d[1], d[2], NoData)

SpecBook == Init /\ [][NextBook]_vars

\* the reply to one command of a refresh: a block of its own kind, a block
\* of another kind with or without its marker, the end marker of another
\* kind alone, and a block that holds lines of all kinds
RightReplies ==
    [pos |-> {<<<<"#POS">>, PositionLine("AAPL", "1")>>, <<PositionLine("MSFT", "2")>>},
     order |-> {<<<<"#Order">>, OrderLine("o1", "Accepted")>>},
     trade |-> {<<<<"#Trade">>, TradeLine("t1", "10.0", "09:30")>>, <<TradeLine("t2", "10.0", "09:31")>>}]
WrongReplies ==
    [pos |-> {<<<<"#Order">>, OrderLine("o1", "Accepted")>>},
     order |-> {<<<<"#POSEnd">>>>},
     trade |-> {<<PositionLine("AAPL", "1")>>}]
RefreshReplies(kind) ==
    RightReplies[kind] \cup WrongReplies[kind]
      \cup {<<OrderLine("o2", "Executed"), PositionLine("AAPL", "2"), TradeLine("t1", "11.0", "09:31")>>}

\* the three replies of one refresh, each of them some text (a command
\* without a reply is in SpecBook and SpecTrades)
RefreshData == RefreshReplies("pos") \X RefreshReplies("order") \X RefreshReplies("trade")

\* One account's store under batch refreshes whose replies may be of the
\* wrong kind, with a push of each kind in between.
NextRefresh ==
    \E a \in SessionAccounts :
        \/ HandlePositionUpdate(a, PositionLine("AAPL", "2"))
        \/ HandleOrderUpdate(a, OrderLine("o2", "Accepted"))
        \/ HandleTradeUpdate(a, TradeLine("t3", "10.0", "09:30"))
        \/ \E d \in RefreshData : ProcessResults(a, d[1], d[2], d[3])

SpecRefresh == Init /\ [][NextRefresh]_vars

\* lines 297-385: the refresh has read the replies of GET POSITIONS, GET
\* ORDERS and GET TRADES and awaits the sleeps and commands that follow
\* (the listener is not paused between the commands)
RefreshFetch(a, d) ==
    /\ refresh[a] = <<>>
    /\ refresh' = Upd(refresh, a, d)
    /\ UNCHANGED <<sessVars, netVars, connVars, dpc, lisVars, cmdVars, regVars, plines, pcalls,
                   account_data, tfed, parse_call, parse_result>>

\* lines 387-445: the refresh stores what it read
RefreshStore(a) ==
    /\ refresh[a] # <<>>
    /\ StoreResults(a, refresh[a][1], refresh[a][2], refresh[a][3])
    /\ refresh' = Upd(refresh, a, <<>>)
    /\ UNCHANGED <<sessVars, netVars, connVars, dpc, lisVars, cmdVars, regVars, plines, pcalls,
                   parse_call, parse_result>>

\* The first refresh of an account after startup, with the pushes the
\* listener dispatches while the refresh is between its reads and its store.
NextStale ==
    \E a \in SessionAccounts :
        \/ /\ account_data[a].positions = <<>> /\ account_data[a].orders = <<>>
           /\ \E d \in RefreshData : RefreshFetch(a, d)
        \/ refresh[a] # <<>> /\ HandlePositionUpdate(a, PositionLine("MSFT", "2"))
        \/ refresh[a] # <<>> /\ HandleOrderUpdate(a, OrderLine("o2", "Accepted"))
        \/ RefreshStore(a)

SpecStale == Init /\ [][NextStale]_vars

\* --------------------------------------- parse_quote, parse_order_action
\* In a quote every token of the line is the sequence of its pieces between
\* colons: <<"A", "10.0">> is A:10.0, <<"T", "1", "2">> is T:1:2, <<"x">> has
\* no colon.  part.split(':', 1) gives the first piece as the key and the rest
\* as the value.
QuoteFloatKeys == {"A", "B", "L", "Hi", "Lo", "op", "ycl", "tcl", "VWAP"}
QuoteIntKeys == {"Asz", "Bsz", "V"}

\* key.lower()
Lower(key) ==
    CASE key = "A" -> "a" [] key = "B" -> "b" [] key = "L" -> "l" [] key = "V" -> "v"
      [] key = "Hi" -> "hi" [] key = "Lo" -> "lo" [] key = "VWAP" -> "vwap"
      [] key = "Asz" -> "asz" [] key = "Bsz" -> "bsz" [] key = "Foo" -> "foo"
      [] key = "T" -> "t" [] OTHER -> key

\* the values of a quote: a float, an int, or the raw text
QInt(n) == [int |-> n]
QStr(value) == [str |-> value]

\* lines 298-306: the value stored for a key; a conversion that raises leaves
\* the raw text
QuoteValue(key, value) ==
    IF key \in QuoteFloatKeys
    THEN (IF Len(value) = 1 /\ IsFloat(value[1]) THEN FloatOf(value[1]) ELSE QStr(value))
    ELSE IF key \in QuoteIntKeys
    THEN (IF Len(value) = 1 /\ IsInt(value[1]) THEN QInt(IntOf(value[1])) ELSE QStr(value))
    ELSE QStr(value)

\* quote[k] = v
QuotePut(quote, k, v) == [x \in (DOMAIN quote) \cup {k} |-> IF x = k THEN v ELSE quote[x]]

\* a variant of the loop in which a value that cannot be converted ends the
\* parse without a quote
RECURSIVE QuoteFieldsStrict(_, _)
QuoteFieldsStrict(quote, parts) ==
    IF parts = <<>> THEN quote
    ELSE LET part == Head(parts) IN
         IF Len(part) >= 2
         THEN (IF QuoteValue(part[1], Tail(part)) = QStr(Tail(part))
                  /\ part[1] \in QuoteFloatKeys \cup QuoteIntKeys
               THEN None
               ELSE QuoteFieldsStrict(QuotePut(quote, Lower(part[1]), QuoteValue(part[1], Tail(part))),
                                      Tail(parts)))
         ELSE QuoteFieldsStrict(quote, Tail(parts))

\* lines 295-306: the loop over parts[2:]
RECURSIVE QuoteFields(_, _)
QuoteFields(quote, parts) ==
    IF parts = <<>> THEN quote
    ELSE LET part == Head(parts) IN
         IF Len(part) >= 2
         THEN QuoteFields(QuotePut(quote, Lower(part[1]), QuoteValue(part[1], Tail(part))),
                          Tail(parts))
         ELSE QuoteFields(quote, Tail(parts))

\* parse_quote: None unless the text starts with $Quote; a line without a
\* symbol raises IndexError, which gives None
ParseQuote(parts) ==
    IF parts = <<>> \/ Head(parts) # <<"$Quote">> THEN None
    ELSE IF Len(parts) < 2 THEN None
    ELSE QuoteFields([x \in {"symbol"} |-> QStr(parts[2])], SubSeq(parts, 3, Len(parts)))

\* parse_order_action: None for fewer than 8 tokens and when a conversion
\* raises; the time (parts[8] counted from 0) is read without a test of the
\* length, so a line of 8 tokens raises IndexError and gives None as well
ParseOrderAction(parts) ==
    IF Len(parts) < 8 THEN None
    ELSE IF ~(IsInt(parts[6]) /\ (parts[7] = "MKT" \/ IsFloat(parts[7]))) THEN None
    ELSE IF Len(parts) < 9 THEN None
    ELSE [order_id |-> parts[2], action_type |-> parts[3], side |-> parts[4],
          symbol |-> parts[5], quantity |-> IntOf(parts[6]),
          price |-> IF parts[7] # "MKT" THEN FloatOf(parts[7]) ELSE None,
          route |-> parts[8], time |-> parts[9],
          notes |-> FieldOr(parts, 10, ""), token |-> FieldOr(parts, 11, "")]

\* ------------------------------------------------- calls of the parser
\* the sequences of up to three lines
BlocksOf(lines) ==
    {<<>>} \cup {<<l>> : l \in lines} \cup {<<l1, l2>> : l1 \in lines, l2 \in lines}
      \cup {<<l1, l2, l3>> : l1 \in lines, l2 \in lines, l3 \in lines}

\* position lines: two that parse, one without its last token, one with
\* a quantity that is no number
ParsePositionLines ==
    { PositionLine("AAPL", "1"), PositionLine("MSFT", "2"),
      SubSeq(PositionLine("AAPL", "2"), 1, 9), PositionLine("AAPL", "x") }

\* order lines of 13, 17, 12, 11 and 10 tokens, with each side code and a
\* market price, and one whose quantity is no number
ParseOrderLines ==
    { OrderLine("o1", "Accepted"),
      <<"%ORDER", "o2", "7", "AAPL", "S", "MKT", "100", "100", "1", "MKT", "ARCA", "Executed",
        "09:30", "o1", "ACC", "TR", "API">>,
      <<"%ORDER", "o3", "7", "AAPL", "SS", "LMT", "100", "100", "1", "10.0", "ARCA", "Accepted">>,
      <<"%ORDER", "o4", "7", "AAPL", "X", "LMT", "100", "100", "1", "10.0", "ARCA">>,
      <<"%ORDER", "o5", "7", "AAPL", "B", "LMT", "100", "100", "1", "10.0">>,
      <<"%ORDER", "o6", "7", "AAPL", "B", "LMT", "x", "100", "1", "10.0", "ARCA", "Accepted", "09:30">>,
      <<"%ORDER", "o7", "7", "AAPL", "B", "LMT", "100", "100", "1">> }

\* trade lines of 8, 12, 9 and 7 tokens, with each side code, and one whose
\* price is no number
ParseTradeLines ==
    { TradeLine("t1", "10.0", "09:30"),
      <<"%TRADE", "t2", "AAPL", "S", "100", "11.0", "ARCA", "09:31", "o1", "A", "0.0", "1">>,
      <<"%TRADE", "t3", "AAPL", "SS", "100", "10.0", "ARCA", "09:31", "o2">>,
      <<"%TRADE", "t1", "AAPL", "B", "100", "10.0", "ARCA">>,
      <<"%TRADE", "t2", "AAPL", "B", "100", "x", "ARCA", "09:30">> }

\* the lines of a reply: the lines of its kind, the two markers, an empty
\* line and a line of another kind
PositionBlocks ==
    BlocksOf(ParsePositionLines \cup {MarkerPosStart, MarkerPosEnd, <<>>, OrderLine("o1", "Accepted")})
OrderBlocks ==
    BlocksOf(ParseOrderLines \cup {MarkerOrderStart, MarkerOrderEnd, TradeLine("t1", "10.0", "09:30")})
TradeBlocks ==
    BlocksOf(ParseTradeLines \cup {MarkerTradeStart, MarkerTradeEnd, <<>>, PositionLine("AAPL", "1")})

\* the key:value tokens of a quote: values that convert and values that do
\* not, a key outside both sets, a value with a colon, a token without a
\* colon, a lower-case key
QuoteTokens ==
    { <<"A", "10.0">>, <<"A", "x">>, <<"Asz", "1">>, <<"Asz", "10.0">>, <<"V", "100">>,
      <<"Foo", "bar">>, <<"T", "1", "2">>, <<"noval">>, <<"a", "2">> }

\* quote lines: the sigil, the symbol and up to three tokens; the sigil
\* alone; a line of another kind
QuoteLines ==
    {<<<<"$Quote">>, <<"AAPL">>>> \o toks : toks \in BlocksOf(QuoteTokens)}
      \cup {<<<<"$Quote">>>>, <<>>, <<<<"%POS">>, <<"AAPL">>, <<"A", "10.0">>>>}

\* %OrderAct lines of 9, 11, 8 and 7 tokens, with a price and at market, and
\* one whose quantity is no number
OrderActLines ==
    { <<"%OrderAct", "o1", "Execute", "B", "AAPL", "100", "10.0", "ARCA", "09:30">>,
      <<"%OrderAct", "o2", "Accept", "S", "AAPL", "100", "MKT", "ARCA", "09:30", "note", "7">>,
      <<"%OrderAct", "o3", "Execute", "B", "AAPL", "100", "10.0", "ARCA">>,
      <<"%OrderAct", "o4", "Cancel", "B", "AAPL", "100", "MKT", "ARCA">>,
      <<"%OrderAct", "o5", "Execute", "B", "AAPL", "100", "10.0">>,
      <<"%OrderAct", "o6", "Execute", "B", "AAPL", "x", "10.0", "ARCA", "09:30">> }

ParserUnchanged ==
    UNCHANGED <<sessVars, netVars, connVars, dpc, lisVars, cmdVars, regVars, plines, pcalls,
                account_data, tfed, refresh>>

\* DataParser.parse_positions(data)
ParsePositionsCall(data) ==
    /\ parse_call = NoCall
    /\ parse_call' = [fn |-> "parse_positions", arg |-> data]
    /\ parse_result' = ParsePositions(data)
    /\ ParserUnchanged

\* DataParser.parse_orders(data)
ParseOrdersCall(data) ==
    /\ parse_call = NoCall
    /\ parse_call' = [fn |-> "parse_orders", arg |-> data]
    /\ parse_result' = ParseOrders(data)
    /\ ParserUnchanged

\* DataParser.parse_trades(data)
ParseTradesCall(data) ==
    /\ parse_call = NoCall
    /\ parse_call' = [fn |-> "parse_trades", arg |-> data]
    /\ parse_result' = ParseTrades(data)
    /\ ParserUnchanged

\* DataParser._parse_position_line(line), as the push handler calls it
ParsePositionLineCall(line) ==
    /\ parse_call = NoCall
    /\ parse_call' = [fn |-> "_parse_position_line", arg |-> line]
    /\ parse_result' = ParsePositionLine(line)
    /\ ParserUnchanged

\* DataParser._parse_order_line(line)
ParseOrderLineCall(line) ==
    /\ parse_call = NoCall
    /\ parse_call' = [fn |-> "_parse_order_line", arg |-> line]
    /\ parse_result' = ParseOrderLine(line)
    /\ ParserUnchanged

\* DataParser._parse_trade_line(line)
ParseTradeLineCall(line) ==
    /\ parse_call = NoCall
    /\ parse_call' = [fn |-> "_parse_trade_line", arg |-> line]
    /\ parse_result' = ParseTradeLine(line)
    /\ ParserUnchanged

\* DataParser.parse_quote(data)
ParseQuoteCall(line) ==
    /\ parse_call = NoCall
    /\ parse_call' = [fn |-> "parse_quote", arg |-> line]
    /\ parse_result' = ParseQuote(line)
    /\ ParserUnchanged

\* DataParser.parse_order_action(line)
ParseOrderActionCall(line) ==
    /\ parse_call = NoCall
    /\ parse_call' = [fn |-> "parse_order_action", arg |-> line]
    /\ parse_result' = ParseOrderAction(line)
    /\ ParserUnchanged

\* The parser, called once on each of its inputs.
NextParse ==
    \/ \E data \in PositionBlocks : ParsePositionsCall(data)
    \/ \E data \in OrderBlocks : ParseOrdersCall(data)
    \/ \E data \in TradeBlocks : ParseTradesCall(data)
    \/ \E line \in ParsePositionLines : ParsePositionLineCall(line)
    \/ \E line \in ParseOrderLines : ParseOrderLineCall(line)
    \/ \E line \in ParseTradeLines : ParseTradeLineCall(line)
    \/ \E line \in QuoteLines : ParseQuoteCall(line)
    \/ \E line \in OrderActLines : ParseOrderActionCall(line)

SpecParse == Init /\ [][NextParse]_vars

\* ------------------------------------------------------------- disconnect()
\* lines 365-375: the QUIT coroutine is created but never awaited, the socket
\* is closed and dropped
DisconnectSocket(a) ==
    /\ CloseSocket(a)
    /\ socket' = Upd(socket, a, 0)

\* connected = False; the reader task, if any, is cancelled and awaited
DisconnectCall(a) ==
    /\ dpc[a] = 0
    /\ connected' = Upd(connected, a, FALSE)
    /\ IF reader_task[a] # 0 /\ lpc[a][reader_task[a]] # "done"
       THEN /\ lcancel' = Upd2(lcancel, a, reader_task[a], TRUE)
            /\ dpc' = Upd(dpc, a, reader_task[a])
            /\ UNCHANGED <<socket, tstate, rx, peer, tx>>
       ELSE /\ DisconnectSocket(a)
            /\ UNCHANGED <<lcancel, dpc>>
    /\ UNCHANGED <<last_error, reader_task, command_lock, lock_waiters, reader_paused,
                   data_callbacks, host, reachable, connVars, lpc, lsock,
                   dispatched, hstate, cmdVars>>

\* the awaited reader task has ended
DisconnectResume(a) ==
    /\ dpc[a] # 0
    /\ lpc[a][dpc[a]] = "done"
    /\ DisconnectSocket(a)
    /\ dpc' = Upd(dpc, a, 0)
    /\ UNCHANGED <<connected, last_error, reader_task, command_lock, lock_waiters,
                   reader_paused, data_callbacks, host, reachable, connVars,
                   lisVars, cmdVars>>

\* disconnect() called on its own (the reconnect endpoint, a caller)
DisconnectBegin(a) == DisconnectCall(a) /\ UNCHANGED <<regVars, appVars>>

DisconnectFinish(a) == DisconnectResume(a) /\ UNCHANGED <<regVars, appVars>>

\* ----------------------------------------------------------- send_command()
ExpectedMarker(cmd) == IF cmd = "GET POSITIONS" THEN "%POS" ELSE "none"
IsSlowConnection(a) == host[a] # LocalHost
BaseTimeout(a) == IF IsSlowConnection(a) THEN RemoteTimeout ELSE LocalTimeout

\* a variant of the guard that looks at the flag only
NotConnectedIgnoresSocket(a) == ~connected[a]

\* the guard of line 206
NotConnected(a) == ~connected[a] \/ socket[a] = 0

\* a variant of the lock that never makes a caller wait
LockNeverHeld(a) == TRUE

\* asyncio.Lock.acquire() returns without waiting
LockAvailable(a) == command_lock[a] = "free" /\ lock_waiters[a] = <<>>

\* inside the lock: reader_paused = True and the first drain read is started
\* (sock_recv(None) raises and the drain is given up)
EnterSection(a, c) ==
    /\ command_lock' = Upd(command_lock, a, c)
    /\ reader_paused' = Upd(reader_paused, a, TRUE)
    /\ IF socket[a] = 0
       THEN cpc' = Upd2(cpc, a, c, "write") /\ UNCHANGED csock
       ELSE cpc' = Upd2(cpc, a, c, "drain") /\ csock' = Upd2(csock, a, c, socket[a])

\* finally: reader_paused = False; the lock is released
LeaveSection(a, c) ==
    /\ reader_paused' = Upd(reader_paused, a, FALSE)
    /\ command_lock' = Upd(command_lock, a, "free")
    /\ cpc' = Upd2(cpc, a, c, "idle")
    /\ celapsed' = Upd2(celapsed, a, c, 0)
    /\ csock' = Upd2(csock, a, c, 0)
    /\ cresp' = Upd2(cresp, a, c, {})
    /\ ccmd' = Upd2(ccmd, a, c, "none")
    /\ cioerr' = Upd2(cioerr, a, c, FALSE)

\* send_command on a Session that is not connected: raise Exception("Not connected")
SendCommandNotConnected(a, c) ==
    /\ cpc[a][c] = "idle"
    /\ NotConnected(a)
    /\ coutcome' = Upd(coutcome, a, [what |-> "not_connected", io |-> FALSE])
    /\ UNCHANGED <<sessVars, netVars, connVars, dpc, lisVars, cpc, ccmd, csock, celapsed,
                   cresp, cioerr, regVars, appVars>>

\* send_command takes the lock at once
SendCommandEnter(a, c, cmd) ==
    /\ cpc[a][c] = "idle"
    /\ ~NotConnected(a)
    /\ LockAvailable(a)
    /\ EnterSection(a, c)
    /\ ccmd' = Upd2(ccmd, a, c, cmd)
    /\ cresp' = Upd2(cresp, a, c, {})
    /\ coutcome' = Upd(coutcome, a, NoOutcome)
    /\ UNCHANGED <<socket, connected, last_error, reader_task, lock_waiters,
                   data_callbacks, host, netVars, connVars, dpc, lisVars, celapsed,
                   cioerr, regVars, appVars>>

\* send_command queues behind the holder of the lock
SendCommandWait(a, c, cmd) ==
    /\ cpc[a][c] = "idle"
    /\ ~NotConnected(a)
    /\ ~LockAvailable(a)
    /\ lock_waiters' = Upd(lock_waiters, a, Append(lock_waiters[a], c))
    /\ cpc' = Upd2(cpc, a, c, "wait_lock")
    /\ ccmd' = Upd2(ccmd, a, c, cmd)
    /\ cresp' = Upd2(cresp, a, c, {})
    /\ coutcome' = Upd(coutcome, a, NoOutcome)
    /\ UNCHANGED <<socket, connected, last_error, reader_task, command_lock,
                   reader_paused, data_callbacks, host, netVars, connVars, dpc, lisVars,
                   csock, celapsed, cioerr, regVars, appVars>>

\* the released lock goes to the first waiter
LockGranted(a, c) ==
    /\ cpc[a][c] = "wait_lock"
    /\ command_lock[a] = "free"
    /\ lock_waiters[a] # <<>> /\ Head(lock_waiters[a]) = c
    /\ lock_waiters' = Upd(lock_waiters, a, Tail(lock_waiters[a]))
    /\ EnterSection(a, c)
    /\ UNCHANGED <<socket, connected, last_error, reader_task, data_callbacks, host,
                   netVars, connVars, dpc, lisVars, ccmd, celapsed, cresp, coutcome,
                   cioerr, regVars, appVars>>

\* lines 221-228: one read of the drain loop (timeout 0.01 s) completes; a
\* packet is discarded and the next read is started, anything else ends the loop
DrainRecv(a, c, ev) ==
    /\ cpc[a][c] = "drain"
    /\ \/ ev = "packet" /\ Readable(a, csock[a][c])
       \/ ev = "eof" /\ AtEof(a, csock[a][c])
       \/ ev = "error" /\ RecvFails(a, csock[a][c])
       \/ ev = "timeout" /\ Silent(a, csock[a][c])
    /\ rx' = Taken(a, csock[a][c], ev)
    /\ IF ev = "packet" /\ socket[a] # 0
       THEN csock' = Upd2(csock, a, c, socket[a]) /\ UNCHANGED cpc
       ELSE cpc' = Upd2(cpc, a, c, "write") /\ csock' = Upd2(csock, a, c, 0)
    /\ UNCHANGED <<sessVars, reachable, tstate, peer, tx, connVars, dpc, lisVars, ccmd,
                   celapsed, cresp, coutcome, cioerr, regVars, appVars>>

\* line 236: the command line is written
WriteOk(a, c) ==
    /\ cpc[a][c] = "write"
    /\ socket[a] # 0 /\ tstate[a][socket[a]] = "established" /\ peer[a][socket[a]] # "reset"
    /\ cpc' = Upd2(cpc, a, c, "settle")
    /\ tx' = Upd2(tx, a, socket[a], tx[a][socket[a]] \cup {"command"})
    /\ UNCHANGED <<sessVars, reachable, tstate, rx, peer, connVars, dpc, lisVars, ccmd, csock, celapsed,
                   cresp, coutcome, cioerr, regVars, appVars>>

\* a variant of the error path that leaves the listener paused
CommandRaisesKeepsPause(a, c, io) ==
    /\ connected' = Upd(connected, a, FALSE)
    /\ coutcome' = Upd(coutcome, a, [what |-> "raised", io |-> io])
    /\ UNCHANGED reader_paused
    /\ command_lock' = Upd(command_lock, a, "free")
    /\ cpc' = Upd2(cpc, a, c, "idle")
    /\ celapsed' = Upd2(celapsed, a, c, 0)
    /\ csock' = Upd2(csock, a, c, 0)
    /\ cresp' = Upd2(cresp, a, c, {})
    /\ ccmd' = Upd2(ccmd, a, c, "none")
    /\ cioerr' = Upd2(cioerr, a, c, FALSE)

\* lines 280-286: an exception in the section: connected = False, re-raise
CommandRaises(a, c, io) ==
    /\ connected' = Upd(connected, a, FALSE)
    /\ coutcome' = Upd(coutcome, a, [what |-> "raised", io |-> io])
    /\ LeaveSection(a, c)

\* line 236 raises: OSError on a closed or reset transport, or self.socket is None
WriteFails(a, c) ==
    /\ cpc[a][c] = "write"
    /\ \/ socket[a] = 0
       \/ socket[a] # 0 /\ tstate[a][socket[a]] # "established"
       \/ socket[a] # 0 /\ peer[a][socket[a]] = "reset"
    /\ CommandRaises(a, c, socket[a] # 0)
    /\ UNCHANGED <<socket, last_error, reader_task, lock_waiters, data_callbacks, host,
                   netVars, connVars, dpc, lisVars, regVars, appVars>>

\* line 279: return response (io: an I/O error was met while reading it)
CommandReturns(a, c, io) ==
    /\ coutcome' = Upd(coutcome, a, [what |-> "returned", io |-> io])
    /\ LeaveSection(a, c)
    /\ UNCHANGED connected

\* lines 264-279, after the response read gave resp: a reply without the
\* expected marker on a non-local host waits 0.5 s for one more read
AfterRead(a, c, resp, io) ==
    IF ExpectedMarker(ccmd[a][c]) # "none"
       /\ ExpectedMarker(ccmd[a][c]) \notin resp
       /\ IsSlowConnection(a)
    THEN /\ cpc' = Upd2(cpc, a, c, "grace")
         /\ cresp' = Upd2(cresp, a, c, resp)
         /\ celapsed' = Upd2(celapsed, a, c, 0)
         /\ csock' = Upd2(csock, a, c, 0)
         /\ cioerr' = Upd2(cioerr, a, c, io)
         /\ UNCHANGED <<connected, coutcome, reader_paused, command_lock, ccmd>>
    ELSE CommandReturns(a, c, io)

\* after the settle delay recvall_async(base_timeout, expected_marker) starts
ReadBegin(a, c) ==
    /\ cpc[a][c] = "settle"
    /\ IF socket[a] = 0
       THEN AfterRead(a, c, {}, FALSE)
       ELSE /\ cpc' = Upd2(cpc, a, c, "read")
            /\ csock' = Upd2(csock, a, c, socket[a])
            /\ celapsed' = Upd2(celapsed, a, c, 0)
            /\ UNCHANGED <<connected, reader_paused, command_lock, cresp, coutcome,
                           cioerr, ccmd>>
    /\ UNCHANGED <<socket, last_error, reader_task, lock_waiters, data_callbacks, host,
                   netVars, connVars, dpc, lisVars, regVars, appVars>>

\* the text accumulated once the pending read has completed with ev
Seen(a, c, ev) ==
    IF ev = "packet" THEN cresp[a][c] \cup {Head(rx[a][csock[a][c]]).mk} ELSE cresp[a][c]

\* one sock_recv of the response read completes
ReadRecv(a, c, ev, d) ==
    /\ cpc[a][c] = "read"
    /\ RecvOutcome(a, csock[a][c], ev, d)
    /\ rx' = Taken(a, csock[a][c], ev)
    /\ IF \/ RecvallEnds(BaseTimeout(a), ExpectedMarker(ccmd[a][c]), celapsed[a][c],
                         celapsed[a][c] + d, ev, Packet(a, csock[a][c], ev), cresp[a][c])
          \/ socket[a] = 0
       THEN AfterRead(a, c, Seen(a, c, ev), ev = "error")
       ELSE /\ cresp' = Upd2(cresp, a, c, Seen(a, c, ev))
            /\ celapsed' = Upd2(celapsed, a, c, celapsed[a][c] + d)
            /\ csock' = Upd2(csock, a, c, socket[a])
            /\ UNCHANGED <<connected, reader_paused, command_lock, cpc, coutcome,
                           cioerr, ccmd>>
    /\ UNCHANGED <<socket, last_error, reader_task, lock_waiters, data_callbacks, host,
                   reachable, tstate, peer, tx, connVars, dpc, lisVars, regVars, appVars>>

\* lines 270-271: after sleep(0.5), recvall_async(timeout=1.0) starts
ExtraReadBegin(a, c) ==
    /\ cpc[a][c] = "grace"
    /\ IF socket[a] = 0
       THEN CommandReturns(a, c, cioerr[a][c])
       ELSE /\ cpc' = Upd2(cpc, a, c, "extra")
            /\ csock' = Upd2(csock, a, c, socket[a])
            /\ UNCHANGED <<connected, reader_paused, command_lock, celapsed, cresp,
                           coutcome, cioerr, ccmd>>
    /\ UNCHANGED <<socket, last_error, reader_task, lock_waiters, data_callbacks, host,
                   netVars, connVars, dpc, lisVars, regVars, appVars>>

\* one sock_recv of the additional read completes
ExtraRecv(a, c, ev, d) ==
    /\ cpc[a][c] = "extra"
    /\ RecvOutcome(a, csock[a][c], ev, d)
    /\ rx' = Taken(a, csock[a][c], ev)
    /\ IF \/ RecvallEnds(ExtraTimeout, "none", celapsed[a][c], celapsed[a][c] + d,
                         ev, Packet(a, csock[a][c], ev), {})
          \/ socket[a] = 0
       THEN CommandReturns(a, c, cioerr[a][c] \/ ev = "error")
       ELSE /\ cresp' = Upd2(cresp, a, c, Seen(a, c, ev))
            /\ celapsed' = Upd2(celapsed, a, c, celapsed[a][c] + d)
            /\ csock' = Upd2(csock, a, c, socket[a])
            /\ UNCHANGED <<connected, reader_paused, command_lock, cpc, coutcome,
                           cioerr, ccmd>>
    /\ UNCHANGED <<socket, last_error, reader_task, lock_waiters, data_callbacks, host,
                   reachable, tstate, peer, tx, connVars, dpc, lisVars, regVars, appVars>>

\* ------------------------------------------------------------ one Session
Terminal(a) ==
    \E n \in Transports :
        \/ \E ch \in Chunks : TerminalSend(a, n, ch)
        \/ TerminalClose(a, n)
        \/ TerminalReset(a, n)

ConnectSteps(a) ==
    \/ ConnectTcpOk(a)
    \/ ConnectTcpTimeout(a)
    \/ ConnectTcpRefused(a)
    \/ ConnectLoginSent(a)
    \/ ConnectLoginSendTimeout(a)
    \/ ConnectLoginSendError(a)
    \/ ConnectLoginReadBegin(a)
    \/ \E ev \in Events, d \in Delays : ConnectLoginRecv(a, ev, d)
    \/ ConnectLoginTimeout(a)

Disconnect(a) == DisconnectBegin(a) \/ DisconnectFinish(a)

Listener(a) ==
    \E n \in Transports :
        \/ ListenerPoll(a, n)
        \/ ListenerExit(a, n)
        \/ \E ev \in Events : ListenerRecv(a, n, ev)
        \/ ListenerCancelled(a, n)

\* the steps of one call of send_command that takes the lock at once
Command(a, c) ==
    \/ SendCommandNotConnected(a, c)
    \/ \E cmd \in Commands : SendCommandEnter(a, c, cmd)
    \/ \E ev \in Events : DrainRecv(a, c, ev)
    \/ WriteOk(a, c)
    \/ WriteFails(a, c)
    \/ ReadBegin(a, c)
    \/ \E ev \in Events, d \in Delays : ReadRecv(a, c, ev, d)

\* a call that finds the lock taken waits for it
LockQueue(a, c) ==
    \/ \E cmd \in Commands : SendCommandWait(a, c, cmd)
    \/ LockGranted(a, c)

\* A Session that is connected once: connect(), disconnect(), the listener,
\* two concurrent callers of send_command and the terminal.
Next ==
    \E a \in SessionAccounts :
        \/ connectCalls[a] = 0 /\ ConnectBegin(a)
        \/ ConnectSteps(a)
        \/ Disconnect(a)
        \/ Listener(a)
        \/ Terminal(a)
        \/ RegisterCallbacks(a)
        \/ \E c \in Callers : Command(a, c) \/ LockQueue(a, c)

Spec == Init /\ [][Next]_vars

\* the steps by which a call that holds the lock moves on: each is the
\* continuation of an await (a sock_recv under wait_for, sock_sendall, sleep)
\* that the event loop resumes once the awaited operation has completed
CommandProgress(a, c) ==
    \/ \E ev \in Events : DrainRecv(a, c, ev)
    \/ WriteOk(a, c)
    \/ WriteFails(a, c)
    \/ ReadBegin(a, c)
    \/ \E ev \in Events, d \in Delays : ReadRecv(a, c, ev, d)

\* A Session that is connected once, used by one caller of send_command and
\* disconnected, with its listener and the terminal; the event loop keeps
\* running the call.
NextProgress ==
    \E a \in SessionAccounts :
        \/ connectCalls[a] = 0 /\ ConnectBegin(a)
        \/ ConnectSteps(a)
        \/ Disconnect(a)
        \/ Listener(a)
        \/ Terminal(a)
        \/ Command(a, "c1")

SpecProgress ==
    /\ Init
    /\ [][NextProgress]_vars
    /\ \A a \in SessionAccounts : WF_vars(CommandProgress(a, "c1"))

\* the steps by which a listener task moves on: each is the continuation of
\* an await (sleep(0.05), a sock_recv under wait_for(.., 0.1)) or the
\* delivery of a cancellation, which the event loop performs
ListenerProgress(a, n) ==
    \/ ListenerPoll(a, n)
    \/ ListenerExit(a, n)
    \/ \E ev \in Events : ListenerRecv(a, n, ev)
    \/ ListenerCancelled(a, n)

\* The Session of SpecProgress; the event loop keeps running the call and
\* the listener tasks.
SpecListen ==
    /\ Init
    /\ [][NextProgress]_vars
    /\ \A a \in SessionAccounts : WF_vars(CommandProgress(a, "c1"))
    /\ \A a \in SessionAccounts : \A n \in Transports : WF_vars(ListenerProgress(a, n))

\* the packets of a reply to GET POSITIONS that arrives in parts: each holds
\* position lines; more tells whether a later packet of the same reply is
\* still to come
ReplyChunks ==
    {[mk |-> "%POS", full |-> f, more |-> m] : f \in BOOLEAN, m \in BOOLEAN}

\* the terminal sends the next packet of a reply
TerminalReply(a) ==
    \E n \in Transports : \E ch \in ReplyChunks : TerminalSend(a, n, ch)

\* The Session of SpecProgress with a terminal that answers in several
\* packets.
NextReply ==
    \/ NextProgress
    \/ \E a \in SessionAccounts : TerminalReply(a)

SpecReply == Init /\ [][NextReply]_vars

\* The life cycle of a Session: connect(), disconnect(), reconnect (up to
\* MaxConnects calls of connect()), the listeners, the handlers and the terminal.
NextLife ==
    \E a \in SessionAccounts :
        \/ ConnectBegin(a)
        \/ ConnectSteps(a)
        \/ Disconnect(a)
        \/ Listener(a)
        \/ Terminal(a)
        \/ RegisterCallbacks(a)

SpecLife == Init /\ [][NextLife]_vars

\* A Session that is connected, used by one caller of send_command,
\* disconnected and reconnected.
NextReconnect ==
    \E a \in SessionAccounts :
        \/ ConnectBegin(a)
        \/ ConnectSteps(a)
        \/ Disconnect(a)
        \/ Listener(a)
        \/ Terminal(a)
        \/ Command(a, "c1")

SpecReconnect == Init /\ [][NextReconnect]_vars

\* ------------------------------------------------- Registry.connect_all()
\* lines 412-422: one task per registered Session, gathered under a 5 s wait_for
ConnectAllBegin ==
    /\ rpc = "idle"
    /\ rpc' = "gather"
    /\ UNCHANGED <<sessVars, netVars, connVars, dpc, lisVars, cmdVars, results, completed, dapc,
                   appVars>>

\* lines 398-409: the task of one account calls connect() of its Session
ConnectAccount(a) ==
    /\ rpc = "gather"
    /\ connectCalls[a] = 0
    /\ ConnectBegin(a)

\* the entry a finished task contributes: (account_id, result)
ResultOf(a) == IF kresult[a] = "true" THEN "true" ELSE "false"

\* lines 419-422, 428-448: every task has finished before the deadline; the
\* map has the result of each
ConnectAllGathered ==
    /\ rpc = "gather"
    /\ \A a \in Accounts : kpc[a] = "done"
    /\ results' = [a \in Accounts |-> ResultOf(a)]
    /\ completed' = Accounts
    /\ rpc' = "returned"
    /\ UNCHANGED <<sessVars, netVars, connVars, dpc, lisVars, cmdVars, dapc, appVars>>

\* lines 423-425: the 5 s deadline expires with a task unfinished: wait_for
\* cancels the gather, which cancels its unfinished tasks (CancelledError is
\* not caught by connect()), and results_list = []. Every task has started
\* by then; the timers of asyncio are lower bounds, so the deadline may fall
\* before a connect() that is still in one of its timed steps has returned.
ConnectAllDeadline ==
    /\ rpc = "gather"
    /\ \A a \in Accounts : connectCalls[a] > 0
    /\ \E a \in Accounts : kpc[a] # "done"
    /\ kpc' = [a \in Accounts |-> IF kpc[a] = "done" THEN "done" ELSE "cancelled"]
    /\ ksock' = [a \in Accounts |-> 0]
    /\ kelapsed' = [a \in Accounts |-> 0]
    /\ kdata' = [a \in Accounts |-> FALSE]
    /\ results' = [a \in Accounts |-> "absent"]
    /\ completed' = {a \in Accounts : kpc[a] = "done"}
    /\ rpc' = "returned"
    /\ UNCHANGED <<sessVars, netVars, kresult, connectCalls, tcpAttempts, dpc,
                   lisVars, cmdVars, dapc, appVars>>

\* A Registry of two Sessions, either of which may be unreachable, and one
\* call of connect_all().
InitRegistry ==
    /\ Constructed
    /\ reachable \in [Accounts -> BOOLEAN]

NextRegistry ==
    \/ ConnectAllBegin
    \/ \E a \in Accounts : ConnectAccount(a)
    \/ \E a \in Accounts : ConnectSteps(a)
    \/ \E a \in Accounts : Terminal(a)
    \/ ConnectAllGathered
    \/ ConnectAllDeadline

SpecRegistry == InitRegistry /\ [][NextRegistry]_vars

\* ------------------------------------------------ Registry.disconnect_all()
\* the Sessions in the order of self.connections
AccountOrder == <<"a1", "a2">>

\* a variant of disconnect() that lets the error of a transport already closed
\* by its Session out to the caller
DisconnectRaisesOnClosed(a) == \E n \in Transports : tstate[a][n] = "closed"

\* disconnect() lets no exception out (the bare excepts of lines 362 and 373)
DisconnectRaises(a) == FALSE

\* lines 452-453: the loop reaches its i-th Session (the call of
\* disconnect_all() for the first, the return of the previous disconnect()
\* for the others) and calls its disconnect(); an exception out of the
\* previous disconnect() would end disconnect_all() there
DisconnectAllEnter(i) ==
    /\ \/ i = 1 /\ dapc = 0 /\ rpc = "returned"
       \/ i > 1 /\ dapc = i - 1 /\ dpc[AccountOrder[i - 1]] = 0
    /\ IF i > 1 /\ DisconnectRaises(AccountOrder[i - 1])
       THEN /\ dapc' = Len(AccountOrder) + 1
            /\ UNCHANGED <<sessVars, netVars, connVars, dpc, lisVars, cmdVars,
                           rpc, results, completed, appVars>>
       ELSE /\ DisconnectCall(AccountOrder[i])
            /\ dapc' = i
            /\ UNCHANGED <<rpc, results, completed, appVars>>

\* the reader task awaited by the i-th disconnect() has ended
DisconnectAllResume(i) ==
    /\ dapc = i
    /\ DisconnectResume(AccountOrder[i])
    /\ UNCHANGED <<regVars, appVars>>

\* the last disconnect() has returned: disconnect_all() returns
DisconnectAllReturn ==
    /\ dapc = Len(AccountOrder)
    /\ dpc[AccountOrder[dapc]] = 0
    /\ dapc' = Len(AccountOrder) + 1
    /\ UNCHANGED <<sessVars, netVars, connVars, dpc, lisVars, cmdVars,
                   rpc, results, completed, appVars>>

\* The Registry from start to shutdown: connect_all() over two Sessions,
\* their listeners and terminals, then disconnect_all().
NextShutdown ==
    \/ ConnectAllBegin
    \/ \E a \in Accounts : ConnectAccount(a)
    \/ \E a \in Accounts : ConnectSteps(a)
    \/ \E a \in Accounts : Listener(a)
    \/ \E a \in Accounts : Terminal(a)
    \/ ConnectAllGathered
    \/ ConnectAllDeadline
    \/ \E i \in 1..Len(AccountOrder) : DisconnectAllEnter(i) \/ DisconnectAllResume(i)
    \/ DisconnectAllReturn

SpecShutdown == Init /\ [][NextShutdown]_vars

\* ================================================================= claims
\* the positions of a send_command call inside the lock
Section == {"drain", "write", "settle", "read", "grace", "extra"}

C2_NoSimultaneousRead ==
    \A a \in SessionAccounts : \A n \in Transports : \A c \in Callers :
        ~(lpc[a][n] = "read" /\ csock[a][c] # 0 /\ lsock[a][n] = csock[a][c])

\* C3: whenever no send_command call is inside the lock, the pause flag is
\* clear and the lock is free: every call, one that raised included, has
\* cleared the flag and released the lock on its way out.
C3_PauseAndLockReleased ==
    \A a \in SessionAccounts :
        (\A c \in Callers : cpc[a][c] \notin Section) =>
            ~reader_paused[a] /\ command_lock[a] = "free"

\* a call has raised from inside the lock and nothing is left of it
C3_Witness ==
    /\ coutcome["a1"].what = "raised"
    /\ \A c \in Callers : cpc["a1"][c] = "idle"
    /\ ~reader_paused["a1"] /\ command_lock["a1"] = "free"

\* C4: a send_command call that met an I/O error, in its write or in the
\* read of its response, has raised and left connected = False.
C4_IoErrorRaises ==
    \A a \in SessionAccounts :
        coutcome[a].io => coutcome[a].what = "raised" /\ ~connected[a]

\* C5: send_command on a Session that is not connected fails with "Not
\* connected" there and then: the call never goes on to the lock, and the
\* step that fails changes no field of the Session, writes nothing to and
\* reads nothing from any transport; and only such a call fails that way.
C5_NotConnectedNoEffect ==
    [][\A a \in SessionAccounts :
        /\ \A c \in Callers :
            (cpc[a][c] = "idle" /\ (~connected[a] \/ socket[a] = 0))
                => cpc'[a][c] = "idle"
        /\ (coutcome'[a].what = "not_connected" /\ coutcome[a].what # "not_connected")
                => /\ ~connected[a] \/ socket[a] = 0
                   /\ UNCHANGED <<sessVars, netVars, connVars, dpc, lisVars,
                                  cpc, ccmd, csock, celapsed, cresp, cioerr>>
      ]_vars

\* a call has failed with "Not connected" on a Session that had been connected
C5_Witness ==
    /\ coutcome["a1"].what = "not_connected"
    /\ kresult["a1"] = "true"
    /\ ~connected["a1"]

\* C6: after a connect() whose TCP connection timed out or was refused the
\* call has returned False, connected = False, last_error names the failure,
\* the Session holds no transport and the one it opened is closed, that call
\* started no listener, and no handler was invoked for data of that transport.
C6_TcpFailure ==
    \A a \in SessionAccounts :
        LET n == connectCalls[a] IN
        (n > 0 /\ kpc[a] = "done" /\ kresult[a] = "false"
               /\ tstate[a][n] \in {"open", "abandoned"}) =>
            /\ ~connected[a]
            /\ last_error[a] \in {"Connection timeout", "Connection failed"}
            /\ socket[a] = 0
            /\ tstate[a][n] = "abandoned"
            /\ lpc[a][n] = "none"
            /\ n \notin dispatched[a]

\* a reconnect has timed out in TCP with the handlers registered
C6_Witness ==
    /\ connectCalls["a1"] = 2 /\ kpc["a1"] = "done" /\ kresult["a1"] = "false"
    /\ tstate["a1"][2] = "abandoned"
    /\ last_error["a1"] = "Connection timeout"
    /\ data_callbacks["a1"] = Kinds

\* C7: when the login read of connect() ends without a byte received on the
\* transport the Session holds, connect() returns False with connected =
\* False, last_error set, the transport closed and no listener started.
C7_LoginUnanswered ==
    [][\A a \in SessionAccounts :
        (/\ kpc[a] = "login_read" /\ kpc'[a] = "done"
         /\ ~kdata[a] /\ rx'[a] = rx[a]
         /\ socket[a] # 0)
            => /\ kresult'[a] = "false"
               /\ ~connected'[a]
               /\ last_error'[a] # "none"
               /\ socket'[a] = 0
               /\ lpc'[a][connectCalls[a]] = "none"
      ]_vars

\* C8: when connect() returns True the Session has connected = True,
\* last_error = None, an open transport, and a listener started by that call.
C8_ConnectedState ==
    [][\A a \in SessionAccounts :
        (kpc[a] # "done" /\ kpc'[a] = "done" /\ kresult'[a] = "true")
            => /\ connected'[a]
               /\ last_error'[a] = "none"
               /\ socket'[a] # 0
               /\ tstate'[a][connectCalls[a]] = "established"
               /\ lpc'[a][connectCalls[a]] = "loop"
      ]_vars

\* C9: connected goes from False to True only in the step in which a called
\* connect() succeeds, and a TCP connection is attempted only in the step
\* that begins a connect() call, once per call.
C9_NoAutomaticReconnect ==
    [][\A a \in SessionAccounts :
        /\ (~connected[a] /\ connected'[a])
                => /\ kpc[a] \in {"sleep2", "login_read"}
                   /\ kpc'[a] = "done" /\ kresult'[a] = "true"
        /\ tcpAttempts'[a] # tcpAttempts[a]
                => /\ tcpAttempts'[a] = tcpAttempts[a] + 1
                   /\ connectCalls'[a] = connectCalls[a] + 1
                   /\ kpc[a] \in {"idle", "done"} /\ kpc'[a] = "tcp"
      ]_vars

\* a command failure set connected = False and a second connect() restored it
C9_Witness ==
    /\ coutcome["a1"].what = "raised"
    /\ connectCalls["a1"] = 2 /\ tcpAttempts["a1"] = 2
    /\ connected["a1"]

\* C10: the map connect_all() returns has the result of every account whose
\* connect() had completed when connect_all() stopped waiting, and False for
\* an unreachable account.
C10_EntryForEveryCompleted ==
    rpc = "returned" =>
        \A a \in completed :
            /\ results[a] = ResultOf(a)
            /\ ~reachable[a] => results[a] = "false"

\* C11: when connect_all() has returned on its deadline, no connect() that
\* was unfinished has been cancelled (each goes on to its own outcome), and
\* the accounts missing from the returned map are exactly the unfinished ones.
C11_DeadlineKeepsAttempts ==
    rpc = "returned" =>
        \A a \in Accounts :
            /\ kpc[a] # "cancelled"
            /\ results[a] = "absent" <=> a \notin completed

\* C12: in the step in which disconnect() returns, whatever the state it was
\* called in, connected = False, the Session holds no transport and every
\* listener task of the Session has ended; and disconnect() on a Session
\* that is already in that state changes nothing.
C12_DisconnectPostcondition ==
    [][\A a \in SessionAccounts :
        /\ (DisconnectFinish(a) \/ (DisconnectBegin(a) /\ dpc'[a] = 0))
                => /\ ~connected'[a]
                   /\ socket'[a] = 0
                   /\ \A n \in Transports : lpc'[a][n] \in {"none", "done"}
        /\ (/\ DisconnectBegin(a)
            /\ ~connected[a] /\ socket[a] = 0
            /\ \A n \in Transports : lpc[a][n] \in {"none", "done"})
                => UNCHANGED vars
      ]_vars

\* C13: when disconnect_all() has ended, every registered Session has
\* connected = False and holds no transport, whatever state each Session was
\* in (connected, failed, cancelled, reset or closed by the terminal).
C13_AllDisconnected ==
    dapc = Len(AccountOrder) + 1 =>
        \A a \in Accounts : ~connected[a] /\ socket[a] = 0 /\ dpc[a] = 0

\* disconnect_all() has ended after closing the transports of two Sessions
\* that were connected and stopping their listeners
C13_Witness ==
    /\ dapc = Len(AccountOrder) + 1
    /\ \A a \in Accounts : kresult[a] = "true" /\ tstate[a][1] = "closed"
    /\ lpc["a1"][1] = "done" /\ lpc["a2"][1] = "done"

\* C16: the listener starts a socket read only in a state where the paused
\* flag is clear; while the flag is set it stays at the top of its loop.
C16_NoReadStartedWhilePaused ==
    [][\A a \in SessionAccounts : \A n \in Transports :
        (lpc[a][n] # "read" /\ lpc'[a][n] = "read") => ~reader_paused[a]
      ]_vars

\* a command has paused the listener, which waits at the top of its loop
\* with data ready on the socket
C16_Witness ==
    /\ reader_paused["a1"]
    /\ lpc["a1"][1] = "loop"
    /\ connected["a1"] /\ socket["a1"] = 1
    /\ rx["a1"][1] # <<>>

\* C17: a Session never has more than one live listener task.
C17_AtMostOneListener ==
    \A a \in SessionAccounts :
        Cardinality({n \in Transports : lpc[a][n] \in {"loop", "read"}}) <= 1

\* C15: an exception raised by a handler does not end the listener: a live
\* listener task ends only when it is cancelled or when it finds its loop
\* condition (connected and a socket) false, and after a handler raised it
\* goes on to read and to dispatch the lines of later reads.
C15_HandlerExceptionKeepsListener ==
    [][\A a \in SessionAccounts : \A n \in Transports :
        /\ (lpc[a][n] \in {"loop", "read"} /\ lpc'[a][n] = "done")
              => (lcancel[a][n] \/ ~(connected[a] /\ socket[a] # 0))
        /\ (hstate[a][n] # "raised" /\ hstate'[a][n] = "raised") => lpc'[a][n] = "loop"
      ]_vars

\* the first listener invoked a handler that raised, and later invoked a
\* handler again for a line of a later read
C15_Witness ==
    /\ hstate["a1"][1] = "resumed"
    /\ 1 \in dispatched["a1"]
    /\ lpc["a1"][1] \in {"loop", "read"}

\* C18: a send_command call that holds the lock gets past its pre-send drain
\* (and so can go on to write, read and return or raise) whatever the
\* terminal sends, also when packets keep arriving during the drain.
C18_DrainCompletes ==
    \A a \in SessionAccounts :
        (cpc[a]["c1"] = "drain") ~> (cpc[a]["c1"] # "drain")

\* the tokens the dispatch table gives for each kind of handler
TokensOf(kind) ==
    CASE kind = "position" -> {PfxPos}
      [] kind = "order" -> {PfxOrder, PfxOrderAct}
      [] kind = "trade" -> {PfxTrade}
      [] kind = "account" -> {PfxAccountInfo, PfxBP}
      [] kind = "quote" -> {PfxQuote}

\* C14: each line of a text, once stripped, leads to at most one handler call;
\* the handler of kind k is called exactly when the line is not empty, starts
\* with a token of k (%POS: position; %ORDER, %OrderAct: order; %TRADE: trade;
\* $AccountInfo, BP: account; $Quote: quote) and k has a registered handler; it
\* is called with (account_id, stripped line). Any other line calls nothing.
C14_DispatchByPrefix ==
    [][\A a \in SessionAccounts :
        (plines[a] # <<>> /\ plines'[a] = Tail(plines[a])) =>
            LET line == Strip(Head(plines[a]))
                old == Len(pcalls[a])
                new == SubSeq(pcalls'[a], old + 1, Len(pcalls'[a]))
            IN  /\ SubSeq(pcalls'[a], 1, old) = pcalls[a]
                /\ Len(new) <= 1
                /\ \A k \in CallbackKinds :
                     (\E i \in 1..Len(new) : new[i].kind = k)
                        <=> /\ line # <<>>
                            /\ k \in data_callbacks[a]
                            /\ \E p \in TokensOf(k) : StartsWith(line, p)
                /\ \A i \in 1..Len(new) :
                     /\ new[i].kind \in CallbackKinds
                     /\ new[i].account_id = a
                     /\ new[i].line = line
      ]_vars

\* a text has been processed to its end: its %POS line reached the position
\* handler, stripped, and nothing else did, with a handler registered for
\* trades and none for quotes
C14_Witness ==
    /\ plines["a1"] = <<>>
    /\ pcalls["a1"] = <<[kind |-> "position", account_id |-> "a1",
                         line |-> PfxPos \o <<" ", "A">>]>>
    /\ "quote" \notin data_callbacks["a1"]
    /\ "trade" \in data_callbacks["a1"]

\* the stored trades of account a that carry the id
TradesOf(a, id) ==
    {i \in 1..Len(account_data[a].trades) : account_data[a].trades[i].trade_id = id}

\* C19: the stored trades of an account hold at most one record per trade_id,
\* and the record of an id carries the values of whichever of push and batch
\* refresh fed that id most recently.
C19_TradesDeduplicated ==
    \A a \in SessionAccounts : \A id \in TradeIds :
        /\ Cardinality(TradesOf(a, id)) <= 1
        /\ \A i \in TradesOf(a, id) :
             /\ tfed[a][id].last # "none"
             /\ account_data[a].trades[i] = tfed[a][id][tfed[a][id].last]

\* trade t1 was pushed with one price and then came in a batch refresh with
\* another; the store holds it once, with the price of the batch
C19_Witness ==
    /\ tfed["a1"]["t1"].last = "batch"
    /\ tfed["a1"]["t1"].push # None
    /\ tfed["a1"]["t1"].batch # None
    /\ tfed["a1"]["t1"].push.price # tfed["a1"]["t1"].batch.price
    /\ Cardinality(TradesOf("a1", "t1")) = 1
    /\ Len(account_data["a1"].trades) = TradeCap

\* C20: the stored positions of an account hold at most one record per symbol
\* and its stored orders at most one record per order_id.
C20_UniqueKeys ==
    \A a \in SessionAccounts :
        /\ \A i, j \in 1..Len(account_data[a].positions) :
             account_data[a].positions[i].symbol = account_data[a].positions[j].symbol => i = j
        /\ \A i, j \in 1..Len(account_data[a].orders) :
             account_data[a].orders[i].order_id = account_data[a].orders[j].order_id => i = j

\* C21: the stored trades of an account never exceed the cap, and the trade
\* a push has just delivered is among the records kept.
C21_CapKeepsPushedTrade ==
    [][\A a \in SessionAccounts :
        /\ Len(account_data[a].trades) <= TradeCap
        /\ Len(account_data'[a].trades) <= TradeCap
        /\ \A line \in TradeLines :
             (HandleTradeUpdate(a, line) /\ ParseTradeLine(line) # None)
                => \E i \in 1..Len(account_data'[a].trades) :
                     account_data'[a].trades[i] = ParseTradeLine(line)
      ]_vars

\* the list was full of other trades when t3 was pushed: t3 is kept, at the
\* front, and the list is still at the cap
C21_Witness ==
    /\ Len(account_data["a1"].trades) = TradeCap
    /\ tfed["a1"]["t3"].last = "push"
    /\ account_data["a1"].trades[1] = tfed["a1"]["t3"].push
    /\ tfed["a1"]["t1"].last # "none"
    /\ tfed["a1"]["t2"].last # "none"
    /\ TradesOf("a1", "t1") = {} \/ TradesOf("a1", "t2") = {}

\* the line parser and the sigil of a block parser
LineParserOf(fn, line) ==
    CASE fn = "parse_positions" -> ParsePositionLine(line)
      [] fn = "parse_orders" -> ParseOrderLine(line)
      [] fn = "parse_trades" -> ParseTradeLine(line)

SigilOf(fn) ==
    CASE fn = "parse_positions" -> "%POS"
      [] fn = "parse_orders" -> "%ORDER"
      [] fn = "parse_trades" -> "%TRADE"

BlockParsers == {"parse_positions", "parse_orders", "parse_trades"}

\* the indices of the lines of a block that carry the sigil and that the
\* line parser accepts
GoodLines(fn, data) ==
    {i \in 1..Len(data) :
        data[i] # <<>> /\ data[i][1] = SigilOf(fn) /\ LineParserOf(fn, data[i]) # None}

\* the k-th of a set of indices
Nth(S, k) == CHOOSE i \in S : Cardinality({j \in S : j < i}) = k - 1

\* C23: parse_positions, parse_orders and parse_trades return (they do not
\* raise) one record for each line of the block that the line parser accepts,
\* in the order of the block; a line that is too short or has an undecodable
\* field is left out and takes no other line with it.
C23_BadLineSkipped ==
    parse_call.fn \in BlockParsers =>
        LET good == GoodLines(parse_call.fn, parse_call.arg) IN
            /\ Len(parse_result) = Cardinality(good)
            /\ \A k \in 1..Len(parse_result) :
                 parse_result[k] = LineParserOf(parse_call.fn, parse_call.arg[Nth(good, k)])

\* parse_orders was given a block of three order lines whose second line the
\* line parser rejects: it returned the records of the first and the third
C23_Witness ==
    /\ parse_call.fn = "parse_orders"
    /\ Len(parse_call.arg) = 3
    /\ GoodLines("parse_orders", parse_call.arg) = {1, 3}
    /\ parse_call.arg[2] # <<>> /\ parse_call.arg[2][1] = "%ORDER"
    /\ Len(parse_result) = 2
    /\ parse_result[1].order_id # parse_result[2].order_id

\* the block parser named fn
BlockParse(fn, data) ==
    CASE fn = "parse_positions" -> ParsePositions(data)
      [] fn = "parse_orders" -> ParseOrders(data)
      [] fn = "parse_trades" -> ParseTrades(data)

\* the lines that are a start or an end marker
Markers ==
    {MarkerPosStart, MarkerPosEnd, MarkerOrderStart, MarkerOrderEnd,
     MarkerTradeStart, MarkerTradeEnd}

\* C27: what a block parser returns for a block is what it returns for the
\* block without its marker lines: the records of the data lines, in order,
\* with or without a start marker, before and after an end marker.
C27_MarkersAdvisory ==
    parse_call.fn \in BlockParsers =>
        parse_result =
            BlockParse(parse_call.fn, SelectSeq(parse_call.arg, LAMBDA l : l \notin Markers))

\* parse_positions was given an end marker, a position line and a start
\* marker, in this order: it returned the record of the line
C27_Witness ==
    /\ parse_call.fn = "parse_positions"
    /\ parse_call.arg = <<MarkerPosEnd, PositionLine("MSFT", "2"), MarkerPosStart>>
    /\ parse_result = <<ParsePositionLine(PositionLine("MSFT", "2"))>>
    /\ parse_result[1].symbol = "MSFT"

\* C24: an %ORDER line of exactly 10 tokens and a %TRADE line of exactly 8
\* tokens, with numbers where numbers are read, yield a record.
C24_MinimumTokenCount ==
    /\ (/\ parse_call.fn = "_parse_order_line"
        /\ Len(parse_call.arg) = 10
        /\ \A i \in {7, 8, 9} : IsInt(parse_call.arg[i])
        /\ (parse_call.arg[10] = "MKT" \/ IsFloat(parse_call.arg[10])))
           => parse_result # None
    /\ (/\ parse_call.fn = "_parse_trade_line"
        /\ Len(parse_call.arg) = 8
        /\ IsInt(parse_call.arg[5]) /\ IsFloat(parse_call.arg[6]))
           => parse_result # None

\* the name the spec gives a side code
SideName(tok) ==
    CASE tok = "B" -> "Buy" [] tok = "S" -> "Sell" [] tok = "SS" -> "Short" [] OTHER -> tok

\* C25: in every record parse_orders and parse_trades return, the side is the
\* name of the line's side code: Buy for B, Sell for S, Short for SS.
C25_SideCodeMapped ==
    parse_call.fn \in {"parse_orders", "parse_trades"} =>
        LET good == GoodLines(parse_call.fn, parse_call.arg)
            at == IF parse_call.fn = "parse_orders" THEN 5 ELSE 4
        IN \A k \in 1..Len(parse_result) :
             parse_result[k].side = SideName(parse_call.arg[Nth(good, k)][at])

\* C26: a %POS line that lacks only its last token, unrealized_pnl, yields a
\* position record whose unrealized_pnl is 0.0.
C26_UnrealizedPnlDefault ==
    (/\ parse_call.fn = "_parse_position_line"
     /\ Len(parse_call.arg) = 9
     /\ IsInt(parse_call.arg[4]) /\ IsFloat(parse_call.arg[5]) /\ IsInt(parse_call.arg[6])
     /\ IsFloat(parse_call.arg[7]) /\ IsFloat(parse_call.arg[8]))
        => /\ parse_result # None
           /\ parse_result.unrealized_pnl = Float(0)

\* the key:value tokens of a quote line, by their index in the line
KeyTokens(parts) == {i \in 3..Len(parts) : Len(parts[i]) >= 2}

\* no later token of the line has the same key, lower-cased
LastOfKey(parts, i) ==
    \A j \in KeyTokens(parts) : j > i => Lower(parts[j][1]) # Lower(parts[i][1])

\* C28: for a line that starts with the quote sigil and has a symbol,
\* parse_quote returns a quote that holds, under each (lower-cased) key, the
\* value of the last token of that key: a float for a key of the float set,
\* an int for a key of the int set, the raw text for any other key and for a
\* value that cannot be converted, whatever the other tokens are.
C28_QuoteCoercion ==
    (/\ parse_call.fn = "parse_quote"
     /\ Len(parse_call.arg) >= 2
     /\ parse_call.arg[1] = <<"$Quote">>)
        => LET parts == parse_call.arg IN
           /\ parse_result # None
           /\ DOMAIN parse_result = {"symbol"} \cup {Lower(parts[i][1]) : i \in KeyTokens(parts)}
           /\ \A i \in KeyTokens(parts) :
                LastOfKey(parts, i) =>
                    LET key == parts[i][1]
                        value == Tail(parts[i])
                        stored == parse_result[Lower(key)]
                    IN  /\ (key \in QuoteFloatKeys /\ Len(value) = 1 /\ IsFloat(value[1]))
                               => stored = FloatOf(value[1])
                        /\ (key \in QuoteIntKeys /\ Len(value) = 1 /\ IsInt(value[1]))
                               => stored = QInt(IntOf(value[1]))
                        /\ (key \notin QuoteFloatKeys \cup QuoteIntKeys) => stored = QStr(value)
                        /\ (key \in QuoteFloatKeys /\ ~(Len(value) = 1 /\ IsFloat(value[1])))
                               => stored = QStr(value)
                        /\ (key \in QuoteIntKeys /\ ~(Len(value) = 1 /\ IsInt(value[1])))
                               => stored = QStr(value)

\* a quote with an ask size that is no int between a volume and a key of
\* neither set: the size is kept as text, the volume is an int, the other
\* key is text
C28_Witness ==
    /\ parse_call.fn = "parse_quote"
    /\ parse_call.arg = <<<<"$Quote">>, <<"AAPL">>, <<"V", "100">>, <<"Asz", "10.0">>, <<"Foo", "bar">>>>
    /\ parse_result # None
    /\ parse_result["asz"] = QStr(<<"10.0">>)
    /\ parse_result["v"] = QInt(100)
    /\ parse_result["foo"] = QStr(<<"bar">>)
    /\ parse_result["symbol"] = QStr(<<"AAPL">>)

\* C29: parse_order_action yields a record for a line of at least 8 tokens
\* with numbers where numbers are read, with a null price exactly when the
\* price token is MKT, and yields none for a line of fewer than 8 tokens.
C29_OrderActionDecoded ==
    parse_call.fn = "parse_order_action" =>
        LET parts == parse_call.arg IN
        /\ Len(parts) < 8 => parse_result = None
        /\ (Len(parts) >= 8 /\ IsInt(parts[6]) /\ (parts[7] = "MKT" \/ IsFloat(parts[7])))
              => /\ parse_result # None
                 /\ (parse_result.price = None) <=> (parts[7] = "MKT")

\* the reply holds neither the sigil nor the marker of the kind
LacksMarker(data, sigil, marker) ==
    \A i \in 1..Len(data) : \A j \in 1..Len(data[i]) :
        /\ data[i][j] \notin {sigil, marker}
        /\ data[i][j] # (IF marker = "#POS" THEN "#POSEnd"
                         ELSE IF marker = "#Order" THEN "#OrderEnd" ELSE "#TradeEnd")

\* the records of the three kinds
PositionRecords == {ParsePositionLine(l) : l \in PositionLines} \ {None}
OrderRecords == {ParseOrderLine(l) : l \in OrderLines} \ {None}
TradeRecords == {ParseTradeLine(l) : l \in TradeLines} \ {None}

\* the records the field holds are all among recs
FieldHolds(field, recs) == \A i \in 1..Len(field) : field[i] \in recs

\* what a refresh leaves in the store when a reply lacks its marker
C22_Discarded(a, d) ==
    /\ LacksMarker(d[1], "%POS", "#POS") => account_data'[a].positions = account_data[a].positions
    /\ LacksMarker(d[2], "%ORDER", "#Order") => account_data'[a].orders = account_data[a].orders
    /\ LacksMarker(d[3], "%TRADE", "#Trade") => account_data'[a].trades = account_data[a].trades

\* C22: a refresh leaves the stored positions (orders, trades) as they were
\* when the reply to GET POSITIONS (GET ORDERS, GET TRADES) holds neither
\* the sigil nor the marker of its kind, and after every step the positions
\* hold position records only, the orders order records only, the trades
\* trade records only.
C22_WrongReplyDiscarded ==
    [][/\ \A a \in SessionAccounts : \A d \in RefreshData :
            C22_Discarded(a, d) \/ ~ProcessResults(a, d[1], d[2], d[3])
       /\ \A a \in SessionAccounts :
            /\ FieldHolds(account_data'[a].positions, PositionRecords)
            /\ FieldHolds(account_data'[a].orders, OrderRecords)
            /\ FieldHolds(account_data'[a].trades, TradeRecords)]_vars

\* the positions and the orders hold records that only a refresh stores,
\* and no trade is stored: every refresh so far had a reply to GET TRADES
\* without the trade marker, and the stored trades stayed empty
C22_Witness ==
    \E a \in SessionAccounts :
        /\ Len(account_data[a].positions) = 1
        /\ account_data[a].positions[1].symbol = "MSFT"
        /\ Len(account_data[a].orders) = 1
        /\ account_data[a].orders[1].order_id = "o1"
        /\ account_data[a].trades = <<>>

\* C30: a step of disconnect() that closes the Session's open transport
\* leaves a QUIT line among the lines written to that transport.
C30_QuitBeforeClose ==
    [][\A a \in Accounts : \A n \in Transports :
          (/\ DisconnectCall(a) \/ DisconnectResume(a)
           /\ socket[a] = n
           /\ tstate[a][n] = "established"
           /\ tstate'[a][n] = "closed")
              => "QUIT" \in tx'[a][n]]_vars

\* C31: the read phase of a command without an expected marker, on a
\* transport that is still up and has delivered nothing, does not end with
\* an empty response before the overall read timeout: when it ends so, the
\* time since its start (at most one per-read timeout after the last look
\* at the clock) has reached the timeout.
C31_NoEarlyEmptyResponse ==
    [][\A a \in SessionAccounts : \A c \in Callers :
          (/\ cpc[a][c] = "read"
           /\ cpc'[a][c] = "idle"
           /\ coutcome'[a].what = "returned"
           /\ ExpectedMarker(ccmd[a][c]) = "none"
           /\ cresp[a][c] = {}
           /\ rx' = rx
           /\ socket[a] # 0
           /\ tstate[a][socket[a]] = "established"
           /\ peer[a][socket[a]] = "up")
              => celapsed[a][c] + PacketTimeout >= BaseTimeout(a)]_vars

\* C33: a Session whose connected flag is set holds a transport handle.
C33_ConnectedHoldsTransport ==
    \A a \in SessionAccounts : connected[a] => socket[a] # 0

\* C34: send_command writes its command line only while the Session is
\* connected.
C34_WriteOnlyConnected ==
    [][\A a \in SessionAccounts : \A c \in Callers : WriteOk(a, c) => connected[a]]_vars

\* C35: when connect() opens a new transport on a Session that is not
\* connected and has no disconnect() in progress (the state in which
\* reconnect_account calls it without a disconnect() first), no transport
\* opened before is still open.
C35_OneOpenTransport ==
    [][\A a \in SessionAccounts :
          (ConnectBegin(a) /\ ~connected[a] /\ dpc[a] = 0)
              => \A n \in Transports : tstate[a][n] \notin {"open", "established"}]_vars

\* the listener tasks of a Session have all ended
ListenersEnded(a) == \A n \in Transports : lpc[a][n] \in {"none", "done"}

\* C32: a listener starts a read of the transport only in a state where
\* connected is true, and when connected is false from some point on, the
\* listener tasks of the Session eventually end.
C32_ListenerStopsWhenDisconnected ==
    /\ [][\A a \in SessionAccounts : \A n \in Transports :
            (lpc[a][n] # "read" /\ lpc'[a][n] = "read") => connected[a]]_vars
    /\ \A a \in SessionAccounts : (<>[](~connected[a])) => <>[]ListenersEnded(a)

\* a command has failed and left connected false with the transport handle
\* in place, no disconnect() has run, and the listener task has ended
C32_Witness ==
    \E a \in SessionAccounts :
        /\ ~connected[a]
        /\ socket[a] # 0
        /\ dpc[a] = 0
        /\ coutcome[a].what = "raised"
        /\ reader_task[a] # 0
        /\ lpc[a][reader_task[a]] = "done"

\* C36: the read phase of a command with an expected marker does not end on
\* a packet of the reply after which a later packet of the same reply is
\* still to come.
C36_WholeReplyRead ==
    [][\A a \in SessionAccounts : \A c \in Callers :
          (/\ cpc[a][c] = "read"
           /\ cpc'[a][c] = "idle"
           /\ coutcome'[a].what = "returned"
           /\ ExpectedMarker(ccmd[a][c]) # "none"
           /\ socket[a] = csock[a][c]
           /\ rx'[a][csock[a][c]] # rx[a][csock[a][c]]
           /\ Head(rx[a][csock[a][c]]) \in ReplyChunks)
              => ~Head(rx[a][csock[a][c]]).more]_vars

\* C37: a handler is called with complete push lines only: no part of a
\* line that reached the listener split over two reads is dispatched on its
\* own.
C37_SplitLineDispatchedWhole ==
    \A a \in SessionAccounts : \A i \in 1..Len(pcalls[a]) :
        pcalls[a][i].line \in PushLines

\* C38: when a handler raises, the lines of the same chunk that follow the
\* line it was called with are still to be classified and dispatched.
C38_RaiseKeepsRemainingLines ==
    [][\A a \in SessionAccounts :
          ProcessLineRaises(a) => plines'[a] = Tail(plines[a])]_vars

\* C39: when a read of the listener is about to return zero bytes (the
\* terminal closed the connection) or to fail with a transport error, the
\* Session eventually reports connected = false.
C39_ListenerReportsLoss ==
    \A a \in SessionAccounts : \A n \in Transports :
        (lpc[a][n] = "read" /\ (AtEof(a, lsock[a][n]) \/ RecvFails(a, lsock[a][n])))
            ~> ~connected[a]

\* C40: the position and order records that pushes put into the store
\* while a refresh was between reading its replies and storing them are
\* still in the store when the refresh has stored its result.
C40_PushSurvivesRefresh ==
    [][\A a \in SessionAccounts :
          RefreshStore(a) =>
             /\ \A i \in 1..Len(account_data[a].positions) :
                   \E j \in 1..Len(account_data'[a].positions) :
                      account_data'[a].positions[j] = account_data[a].positions[i]
             /\ \A i \in 1..Len(account_data[a].orders) :
                   \E j \in 1..Len(account_data'[a].orders) :
                      account_data'[a].orders[j] = account_data[a].orders[i]]_vars

====
